---- MODULE Spec2Model ----
(***************************************************************************)
(* Model of the Qatar events aggregator: the EventAggregator (catalog,     *)
(* normalisation, fuzzy de-duplication), the VectorStore (embeddings with  *)
(* an in-memory mode and a MongoDB-backed mode with a read cache), the RAG *)
(* Chatbot (indexEvents, chat) and the scraping pipeline of server.js.     *)
(*                                                                         *)
(* Strings are sequences of one-character strings, so that the string      *)
(* operations of the code (toLowerCase, replace, split, includes) are      *)
(* computed and not assumed.  Dates are integer timestamps in ticks.       *)
(***************************************************************************)
EXTENDS Integers, Sequences, FiniteSets, TLC

VARIABLES
    \* ---- EventAggregator (src/utils/eventAggregator.js)
    inMemoryEvents,     \* this.inMemoryEvents: sequence of canonical events
    lastUpdate,         \* this.lastUpdate: NoTime or a timestamp
    useDatabase,        \* this.useDatabase
    dbEvents,           \* the Event collection: documents in insertion order
    dbPending,          \* database operations issued and not yet completed
    now,                \* the clock read by new Date()
    queryRes,           \* what the last catalog call returned
    \* ---- VectorStore and Chatbot (src/unnamed/part_000, part_001)
    vectorStore,        \* the chatbot's VectorStore instance
    twinStore,          \* a second VectorStore instance in memory-only mode
    storeRes,           \* what the last VectorStore call returned, per instance
    hasApiKey,          \* Chatbot.hasApiKey
    isInitialized,      \* Chatbot.isInitialized
    embedLog,           \* the ids of the events the last Chatbot call passed to the
                        \* embedding provider, in order
    genCalls,           \* the calls the last Chatbot call made to the generation provider
    chatRes,            \* what the last Chatbot call returned
    \* ---- server.js
    isScrapingInProgress,
    scrapingError,
    lastScrapingTime,
    runs,               \* the invocations of scrapeAllSources and where each is
    httpRes,            \* the answer of the last trigger
    \* ---- inputs and outputs of the pure functions under check
    dedupeIn,
    dedupeOut,
    callArgs,           \* the arguments of the call of parseDate or cosineSimilarity
    callRes             \* None, or what that call returned

catVars == <<inMemoryEvents, lastUpdate, useDatabase, dbEvents, dbPending, now, queryRes>>
botVars == <<vectorStore, twinStore, storeRes, hasApiKey, isInitialized, embedLog, genCalls, chatRes>>
srvVars == <<isScrapingInProgress, scrapingError, lastScrapingTime, runs, httpRes>>
fnVars  == <<dedupeIn, dedupeOut, callArgs, callRes>>
vars == <<catVars, botVars, srvVars, fnVars>>

(***************************************************************************)
(* Generic helpers on sequences.                                           *)
(***************************************************************************)
Range(s) == {s[i] : i \in DOMAIN s}

RECURSIVE SeqsUpTo(_, _)
SeqsUpTo(S, n) ==
    IF n = 0 THEN {<<>>}
    ELSE LET shorter == SeqsUpTo(S, n - 1)
         IN  shorter \cup {Append(s, x) : s \in {t \in shorter : Len(t) = n - 1}, x \in S}

SelectIdx(s, Test(_)) ==
    \* the indices i of s with Test(i), ascending, as a sequence
    LET F[i \in 0..Len(s)] ==
            IF i = 0 THEN <<>>
            ELSE IF Test(i) THEN Append(F[i - 1], i) ELSE F[i - 1]
    IN  F[Len(s)]

Min(a, b) == IF a < b THEN a ELSE b

\* the elements of a finite set as a sequence, in some fixed order
RECURSIVE SortedSeqOf(_)
SortedSeqOf(S) ==
    IF S = {} THEN <<>>
    ELSE LET x == CHOOSE y \in S : TRUE IN <<x>> \o SortedSeqOf(S \ {x})

\* an optional value of a loosely typed JS object: absent (undefined) or present
None == <<>>
Some(v) == <<v>>
IsSome(o) == o # <<>>
Val(o) == o[1]

(***************************************************************************)
(* Characters and strings.                                                 *)
(***************************************************************************)
UpperChars == <<"A","B","C","D","E","F","G","H","I","J","K","L","M",
                "N","O","P","Q","R","S","T","U","V","W","X","Y","Z">>
LowerChars == <<"a","b","c","d","e","f","g","h","i","j","k","l","m",
                "n","o","p","q","r","s","t","u","v","w","x","y","z">>
DigitChars == {"0","1","2","3","4","5","6","7","8","9"}

\* String.prototype.toLowerCase on one character
LowerOf == [c \in Range(UpperChars) |->
              LowerChars[CHOOSE i \in DOMAIN UpperChars : UpperChars[i] = c]]
LowerChar(c) == IF c \in DOMAIN LowerOf THEN LowerOf[c] ELSE c

toLowerCase(s) == [i \in DOMAIN s |-> LowerChar(s[i])]

\* the regex classes \w and \s
WordChars == Range(UpperChars) \cup Range(LowerChars) \cup DigitChars \cup {"_"}
SpaceChars == {" ", "\t", "\n"}
IdChars == Range(LowerChars) \cup DigitChars
IsWordChar(c) == c \in WordChars
IsSpaceChar(c) == c \in SpaceChars

RECURSIVE trimStart(_)
trimStart(s) == IF s # <<>> /\ IsSpaceChar(Head(s)) THEN trimStart(Tail(s)) ELSE s

RECURSIVE trimEnd(_)
trimEnd(s) ==
    IF s # <<>> /\ IsSpaceChar(s[Len(s)]) THEN trimEnd(SubSeq(s, 1, Len(s) - 1)) ELSE s

\* String.prototype.trim
trim(s) == trimEnd(trimStart(s))

\* String.prototype.includes: sub occurs in s as a contiguous substring
includes(s, sub) ==
    \E i \in 1..(Len(s) - Len(sub) + 1) : SubSeq(s, i, i + Len(sub) - 1) = sub

\* String.prototype.split(' '): the pieces between single spaces, empty ones kept
RECURSIVE splitSpace(_)
splitSpace(s) ==
    IF \A i \in DOMAIN s : s[i] # " " THEN <<s>>
    ELSE LET k == CHOOSE i \in DOMAIN s : s[i] = " " /\ \A j \in 1..(i - 1) : s[j] # " "
         IN  <<SubSeq(s, 1, k - 1)>> \o splitSpace(SubSeq(s, k + 1, Len(s)))

\* Array.prototype.join(' ')
RECURSIVE joinSpace(_)
joinSpace(ws) ==
    IF ws = <<>> THEN <<>>
    ELSE IF Len(ws) = 1 THEN ws[1]
    ELSE ws[1] \o <<" ">> \o joinSpace(Tail(ws))

\* replace(/[^\w\s]/g, ''): every character that is neither \w nor \s is removed
stripSpecial(s) == SelectSeq(s, LAMBDA c : IsWordChar(c) \/ IsSpaceChar(c))

\* replace(/\s+/g, ' '): every maximal run of whitespace becomes one space
RECURSIVE collapseSpace(_)
collapseSpace(s) ==
    IF s = <<>> THEN <<>>
    ELSE IF IsSpaceChar(Head(s)) THEN <<" ">> \o collapseSpace(trimStart(s))
    ELSE <<Head(s)>> \o collapseSpace(Tail(s))

StopWords == { <<"t","h","e">>, <<"a">>, <<"a","n">>, <<"i","n">>,
               <<"a","t">>, <<"o","n">>, <<"f","o","r">> }

\* replace(/\b(the|a|an|in|at|on|for)\b/g, ''): a whole word (a maximal run of \w,
\* here the pieces between the single spaces left by collapseSpace) that is a stop
\* word is removed; the spaces around it stay
stripStopWords(s) ==
    LET ws == splitSpace(s)
    IN  joinSpace([i \in DOMAIN ws |-> IF ws[i] \in StopWords THEN <<>> ELSE ws[i]])

normalizeTitle(title) ==
    trim(stripStopWords(collapseSpace(stripSpecial(trim(toLowerCase(title))))))

(***************************************************************************)
(* Dates.  A timestamp counts ticks; a calendar day has TicksPerDay ticks  *)
(* and a year DaysPerYear days.  toDateString() names the calendar day.    *)
(***************************************************************************)
TicksPerDay == 2
DaysPerYear == 365
TicksPerYear == DaysPerYear * TicksPerDay

MakeDate(year, doy, tod) == (year * DaysPerYear + doy) * TicksPerDay + tod
getFullYear(ts) == ts \div TicksPerYear
setFullYear(ts, year) == year * TicksPerYear + (ts % TicksPerYear)
toDateString(ts) == ts \div TicksPerDay

NoTime == -1

\* the year V8's Date parser gives a date string that names none
DefaultYear == 2001
ThirtyDays == 30

\* What new Date(string) makes of a date string.  A date string is a record
\* [kind, year, doy, tod]: "md" names a month and a day and no year, "mdy" names
\* the year too, "junk" is text the parser rejects.  InvalidDate is NaN.
InvalidDate == -2
NewDate(str) ==
    CASE str.kind = "md"  -> MakeDate(DefaultYear, str.doy, str.tod)
      [] str.kind = "mdy" -> MakeDate(str.year, str.doy, str.tod)
      [] OTHER            -> InvalidDate

\* dateString.replace(/,?\s*\d{4}.*$/, '') followed by `${cleanDate}, ${currentYear}`
WithCurrentYear(str, currentYear) ==
    IF str.kind \in {"md", "mdy"}
    THEN [kind |-> "mdy", year |-> currentYear, doy |-> str.doy, tod |-> str.tod]
    ELSE str

\* lines 113-130 of parseDate: the parsed date after the repair of its year, or
\* InvalidDate
yearRepaired(dateString, nowTs) ==
    LET str == Val(dateString)
        currentYear == getFullYear(nowTs)
        first == NewDate(str)
        date1 == IF first = InvalidDate \/ getFullYear(first) < currentYear - 1
                 THEN NewDate(WithCurrentYear(str, currentYear))
                 ELSE first
    IN  IF date1 # InvalidDate /\ getFullYear(date1) < currentYear - 1
        THEN setFullYear(date1, currentYear)
        ELSE date1

\* parseDate without the repair of the year
parseDateNoRepair(dateString, nowTs) ==
    IF ~IsSome(dateString) THEN nowTs
    ELSE LET date == NewDate(Val(dateString))
         IN  IF date = InvalidDate THEN nowTs
             ELSE IF date < nowTs - ThirtyDays * TicksPerDay
                  THEN setFullYear(date, getFullYear(date) + 1)
                  ELSE date

\* parseDate without the year transition
parseDateNoRollover(dateString, nowTs) ==
    IF ~IsSome(dateString) THEN nowTs
    ELSE IF yearRepaired(dateString, nowTs) = InvalidDate THEN nowTs
    ELSE yearRepaired(dateString, nowTs)

parseDate(dateString, nowTs) ==
    IF ~IsSome(dateString) THEN nowTs
    ELSE
      LET str == Val(dateString)
          currentYear == getFullYear(nowTs)
          first == NewDate(str)
          date1 == IF first = InvalidDate \/ getFullYear(first) < currentYear - 1
                   THEN NewDate(WithCurrentYear(str, currentYear))
                   ELSE first
      IN  IF date1 # InvalidDate
          THEN LET date2 == IF getFullYear(date1) < currentYear - 1
                            THEN setFullYear(date1, currentYear)
                            ELSE date1
                   thirtyDaysAgo == nowTs - ThirtyDays * TicksPerDay
               IN  IF date2 < thirtyDaysAgo
                   THEN setFullYear(date2, getFullYear(date2) + 1)
                   ELSE date2
          ELSE nowTs

(***************************************************************************)
(* Normalisation of a raw event (a loosely typed bag: every field is       *)
(* optional) into a canonical event.                                       *)
(***************************************************************************)
\* event.x || dflt for a field holding text kept opaque
OrElse(o, dflt) == IF IsSome(o) /\ Val(o) # "" THEN Val(o) ELSE dflt
\* event.x || dflt for a field holding a character sequence
OrElseChars(o, dflt) == IF IsSome(o) /\ Val(o) # <<>> THEN Val(o) ELSE dflt

\* title.toLowerCase().replace(/[^a-z0-9]/g, '-').substring(0, 50)
IdMaxLen == 50
generateId(title) ==
    LET low == toLowerCase(title)
        dashed == [i \in DOMAIN low |->
                     IF low[i] \in IdChars THEN low[i] ELSE "-"]
    IN  SubSeq(dashed, 1, Min(Len(dashed), IdMaxLen))

General == <<"G","e","n","e","r","a","l">>
UntitledEvent == <<"U","n","t","i","t","l","e","d"," ","E","v","e","n","t">>

\* generateId(undefined) raises a TypeError: normalizeEvent raises when the raw
\* event has neither an id nor a title
normalizeRaises(event) ==
    ~(IsSome(event.id) /\ Val(event.id) # <<>>) /\ ~IsSome(event.title)

normalizeEvent(event, source, nowTs) ==
    [ id          |-> source \o <<"-">> \o
                      (IF IsSome(event.id) /\ Val(event.id) # <<>>
                       THEN Val(event.id) ELSE generateId(Val(event.title))),
      title       |-> OrElseChars(event.title, UntitledEvent),
      description |-> OrElse(event.description, ""),
      date        |-> parseDate(event.date, nowTs),
      endDate     |-> IF IsSome(event.endDate) THEN parseDate(event.endDate, nowTs) ELSE NoTime,
      time        |-> OrElse(event.time, ""),
      price       |-> OrElse(event.price, "Free"),
      category    |-> OrElseChars(event.category, General),
      image       |-> OrElse(event.image, ""),
      link        |-> OrElse(event.link, ""),
      source      |-> source,
      venue       |-> OrElse(event.venue, ""),
      organizer   |-> OrElse(event.organizer, "") ]

(***************************************************************************)
(* De-duplication.                                                         *)
(***************************************************************************)
\* calculateSimilarity returns matches / longer.length; the quotient is kept as the
\* pair <<numerator, denominator>> (1.0 is <<1, 1>>)
RECURSIVE SumLen(_)
SumLen(ws) == IF ws = <<>> THEN 0 ELSE Len(Head(ws)) + SumLen(Tail(ws))

calculateSimilarity(str1, str2) ==
    LET longer  == IF Len(str1) > Len(str2) THEN str1 ELSE str2
        shorter == IF Len(str1) > Len(str2) THEN str2 ELSE str1
        shorterWords == splitSpace(shorter)
        longerWords  == splitSpace(longer)
        matching == SelectSeq(shorterWords,
                              LAMBDA w : w \in Range(longerWords) /\ Len(w) > 2)
    IN  IF Len(longer) = 0 THEN <<1, 1>> ELSE <<SumLen(matching), Len(longer)>>

\* similarity > 0.8, on the quotient num / den
MoreThan80Percent(q) == 10 * q[1] > 8 * q[2]

\* a similarity test that knows the exact match of the normalized titles only
areEventsSimilarExact(event1, event2) ==
    /\ toDateString(event1.date) = toDateString(event2.date)
    /\ normalizeTitle(event1.title) = normalizeTitle(event2.title)

areEventsSimilar(event1, event2) ==
    IF toDateString(event1.date) # toDateString(event2.date) THEN FALSE
    ELSE LET title1 == normalizeTitle(event1.title)
             title2 == normalizeTitle(event2.title)
         IN  IF title1 = title2 THEN TRUE
             ELSE IF includes(title1, title2) \/ includes(title2, title1) THEN TRUE
             ELSE MoreThan80Percent(calculateSimilarity(title1, title2))

\* the key of the seen map: `${normalizedTitle}-${dateKey}`
DedupeKey(event) == <<normalizeTitle(event.title), toDateString(event.date)>>

\* a duplicate filter that compares a candidate with the event just before it only
removeDuplicatesAdjacent(events) ==
    SelectIdx(events, LAMBDA i :
        i = 1 \/ ( DedupeKey(events[i]) # DedupeKey(events[i - 1])
                   /\ ~areEventsSimilar(events[i], events[i - 1]) ))

\* removeDuplicates, as the positions of the input it keeps: the seen map holds
\* exactly the events kept so far
removeDuplicatesIdx(events) ==
    LET Kept[i \in 0..Len(events)] ==
            IF i = 0 THEN <<>>
            ELSE LET seen == Kept[i - 1]
                     event == events[i]
                     hasKey == \E k \in Range(seen) : DedupeKey(events[k]) = DedupeKey(event)
                     isDuplicate == \E k \in Range(seen) : areEventsSimilar(event, events[k])
                 IN  IF hasKey \/ isDuplicate THEN seen ELSE Append(seen, i)
    IN  Kept[Len(events)]

removeDuplicates(events) ==
    LET idx == removeDuplicatesIdx(events)
    IN  [j \in DOMAIN idx |-> events[idx[j]]]

(***************************************************************************)
(* The Event collection (models/Event.js) and the EventAggregator's        *)
(* operations.  Each operation is a function of the aggregator's state     *)
(* agg = [inMemoryEvents, lastUpdate, useDatabase, dbEvents] and of        *)
(* whether the database call it makes succeeds.                            *)
(***************************************************************************)
\* Array.prototype.sort with a comparator, and a MongoDB sort on one field: stable
\* (a, b) => new Date(a.date) - new Date(b.date), and sort({date: 1})
RECURSIVE InsertByDate(_, _)
InsertByDate(sorted, x) ==
    IF sorted = <<>> THEN <<x>>
    ELSE IF sorted[Len(sorted)].date <= x.date THEN Append(sorted, x)
    ELSE Append(InsertByDate(SubSeq(sorted, 1, Len(sorted) - 1), x), sorted[Len(sorted)])

\* the events left in the order they came in
unsortedByDate(events) == events

sortByDate(events) ==
    LET F[i \in 0..Len(events)] ==
            IF i = 0 THEN <<>> ELSE InsertByDate(F[i - 1], events[i])
    IN  F[Len(events)]

\* the document that addEvents' updateOne writes for a canonical event
EventDoc(event) ==
    [ eventId |-> event.id, title |-> event.title, description |-> event.description,
      date |-> event.date, endDate |-> event.endDate, time |-> event.time,
      price |-> event.price, category |-> event.category, venue |-> event.venue,
      organizer |-> event.organizer, image |-> event.image, link |-> event.link,
      source |-> event.source ]

\* updateOne({eventId}, {$set: doc}, {upsert: true}) on the collection
upsertDoc(coll, doc) ==
    IF \E i \in DOMAIN coll : coll[i].eventId = doc.eventId
    THEN [i \in DOMAIN coll |-> IF coll[i].eventId = doc.eventId THEN doc ELSE coll[i]]
    ELSE Append(coll, doc)

\* Event.bulkWrite(bulkOps): the upserts in order
bulkWrite(coll, docs) ==
    LET F[i \in 0..Len(docs)] == IF i = 0 THEN coll ELSE upsertDoc(F[i - 1], docs[i])
    IN  F[Len(docs)]

convertDbEventsToFormat(dbDocs) ==
    [i \in DOMAIN dbDocs |->
        [ id |-> dbDocs[i].eventId, title |-> dbDocs[i].title,
          description |-> dbDocs[i].description, date |-> dbDocs[i].date,
          dateDisplay |-> toDateString(dbDocs[i].date), endDate |-> dbDocs[i].endDate,
          time |-> dbDocs[i].time, price |-> dbDocs[i].price,
          category |-> dbDocs[i].category, venue |-> dbDocs[i].venue,
          organizer |-> dbDocs[i].organizer, image |-> dbDocs[i].image,
          link |-> dbDocs[i].link, source |-> dbDocs[i].source ] ]

\* Event.findByDateRange and the filter of the in-memory path
inRange(date, startDate, endDate) == date >= startDate /\ date <= endDate
findByDateRange(coll, startDate, endDate) ==
    sortByDate(SelectSeq(coll, LAMBDA d : inRange(d.date, startDate, endDate)))

\* Event.findByCategory: an exact match on the category
findByCategory(coll, category) ==
    sortByDate(SelectSeq(coll, LAMBDA d : d.category = category))

Agg == [ inMemoryEvents |-> inMemoryEvents, lastUpdate |-> lastUpdate,
         useDatabase |-> useDatabase, dbEvents |-> dbEvents ]

batchRaises(events) == \E i \in DOMAIN events : normalizeRaises(events[i])

normalizeBatch(events, source, nowTs) ==
    [i \in DOMAIN events |-> normalizeEvent(events[i], source, nowTs)]

\* addEvents(events, source), awaited, for a batch that normalizeEvent accepts
addEvents(agg, events, source, nowTs, dbOk) ==
    LET normalizedEvents == normalizeBatch(events, source, nowTs)
        docs == [i \in DOMAIN normalizedEvents |-> EventDoc(normalizedEvents[i])]
    IN  IF agg.useDatabase
        THEN IF dbOk
             THEN [agg EXCEPT !.dbEvents = bulkWrite(@, docs), !.lastUpdate = nowTs]
             ELSE [agg EXCEPT !.inMemoryEvents = @ \o normalizedEvents,
                              !.lastUpdate = nowTs]
        ELSE [agg EXCEPT !.inMemoryEvents = @ \o normalizedEvents, !.lastUpdate = nowTs]

\* the in-memory path of getAllEvents
allFromMemory(agg) == sortByDate(removeDuplicates(agg.inMemoryEvents))

getAllEvents(agg, dbOk) ==
    IF agg.useDatabase /\ dbOk
    THEN convertDbEventsToFormat(sortByDate(agg.dbEvents))
    ELSE allFromMemory(agg)

filterByDateRange(agg, startDate, endDate, dbOk) ==
    IF agg.useDatabase /\ dbOk
    THEN convertDbEventsToFormat(findByDateRange(agg.dbEvents, startDate, endDate))
    ELSE sortByDate(removeDuplicates(
             SelectSeq(agg.inMemoryEvents,
                       LAMBDA e : inRange(e.date, startDate, endDate))))

\* getEventsByCategory: the fallback calls getAllEvents, which asks the database again
getEventsByCategory(agg, category, dbOk, dbOkAgain) ==
    IF agg.useDatabase /\ dbOk
    THEN convertDbEventsToFormat(findByCategory(agg.dbEvents, category))
    ELSE SelectSeq(getAllEvents(agg, dbOkAgain),
                   LAMBDA e : toLowerCase(e.category) = toLowerCase(category))

\* getCategories: the distinct categories (Event.getCategories sorts them; the
\* order is left out, the result is the set)
getCategories(agg, dbOk) ==
    IF agg.useDatabase /\ dbOk
    THEN {agg.dbEvents[i].category : i \in DOMAIN agg.dbEvents}
    ELSE {agg.inMemoryEvents[i].category : i \in DOMAIN agg.inMemoryEvents}

\* clear(), awaited: a failed deleteMany is logged and the in-memory reset still runs
clear(agg, dbOk) ==
    [agg EXCEPT !.dbEvents = IF agg.useDatabase /\ dbOk THEN <<>> ELSE @,
                !.inMemoryEvents = <<>>,
                !.lastUpdate = NoTime]

\* getStats: countDocuments decides the path; the fallback's getAllEvents and
\* getCategories ask the database again
getStats(agg, dbOk, dbOkAgain) ==
    IF agg.useDatabase /\ dbOk
    THEN [ totalEvents |-> Len(agg.dbEvents), uniqueEvents |-> Len(agg.dbEvents),
           categories |-> Cardinality(getCategories(agg, dbOkAgain)),
           lastUpdate |-> agg.lastUpdate, usingDatabase |-> agg.useDatabase ]
    ELSE [ totalEvents |-> Len(agg.inMemoryEvents),
           uniqueEvents |-> Len(getAllEvents(agg, dbOkAgain)),
           categories |-> Cardinality(getCategories(agg, dbOkAgain)),
           lastUpdate |-> agg.lastUpdate, usingDatabase |-> agg.useDatabase ]

(***************************************************************************)
(* The VectorStore (utils/vectorStore.js) over the Embedding collection.   *)
(* A store is the record                                                   *)
(*   [useDatabase, inMemoryVectors, vectorCache, dbEmbeddings]             *)
(* A JS Map is the sequence of its entries in insertion order;             *)
(* vectorCache is None (null) or Some(map).                                *)
(***************************************************************************)
\* Map.prototype.set: a key already present keeps its place
mapSet(map, eventId, embedding, metadata) ==
    LET entry == [eventId |-> eventId, embedding |-> embedding, metadata |-> metadata]
    IN  IF \E i \in DOMAIN map : map[i].eventId = eventId
        THEN [i \in DOMAIN map |-> IF map[i].eventId = eventId THEN entry ELSE map[i]]
        ELSE Append(map, entry)

mapHas(map, eventId) == \E i \in DOMAIN map : map[i].eventId = eventId

NewVectorStore ==
    [ useDatabase |-> FALSE, inMemoryVectors |-> <<>>, vectorCache |-> None,
      dbEmbeddings |-> <<>> ]

\* refreshCache: a new map built from Embedding.getAllEmbeddings(), each entry with
\* the metadata {eventId}; on a failed read the cache becomes null
refreshCache(vs, dbOk) ==
    IF ~vs.useDatabase THEN vs
    ELSE IF dbOk
    THEN [vs EXCEPT !.vectorCache =
            Some([i \in DOMAIN vs.dbEmbeddings |->
                    [ eventId |-> vs.dbEmbeddings[i].eventId,
                      embedding |-> vs.dbEmbeddings[i].embedding,
                      metadata |-> [eventId |-> vs.dbEmbeddings[i].eventId] ]])]
    ELSE [vs EXCEPT !.vectorCache = None]

\* initialize(database): isConnected selects the mode; the cache is loaded
initializeStore(vs, isConnected, dbOk) ==
    refreshCache([vs EXCEPT !.useDatabase = isConnected], dbOk)

\* findOneAndUpdate / updateOne with upsert on the Embedding collection
upsertEmbedding(coll, eventId, embedding) ==
    IF \E i \in DOMAIN coll : coll[i].eventId = eventId
    THEN [i \in DOMAIN coll |->
            IF coll[i].eventId = eventId
            THEN [eventId |-> eventId, embedding |-> embedding] ELSE coll[i]]
    ELSE Append(coll, [eventId |-> eventId, embedding |-> embedding])

addVector(vs, eventId, embedding, metadata, dbOk) ==
    IF vs.useDatabase
    THEN IF dbOk
         THEN [vs EXCEPT
                 !.dbEmbeddings = upsertEmbedding(@, eventId, embedding),
                 !.vectorCache = IF IsSome(@)
                                 THEN Some(mapSet(Val(@), eventId, embedding, metadata))
                                 ELSE @]
         ELSE [vs EXCEPT !.inMemoryVectors = mapSet(@, eventId, embedding, metadata)]
    ELSE [vs EXCEPT !.inMemoryVectors = mapSet(@, eventId, embedding, metadata)]

\* the metadata addVectors keeps with a vector in the in-memory map
IndexMetadata(event) ==
    [ title |-> event.title, description |-> event.description, date |-> event.date,
      dateDisplay |-> IF "dateDisplay" \in DOMAIN event THEN Some(event.dateDisplay) ELSE None,
      category |-> event.category, venue |-> event.venue, price |-> event.price,
      link |-> event.link, organizer |-> event.organizer, image |-> event.image ]

setAllInMemory(map, events, embeddings) ==
    LET F[i \in 0..Len(events)] ==
            IF i = 0 THEN map
            ELSE mapSet(F[i - 1], events[i].id, embeddings[i], IndexMetadata(events[i]))
    IN  F[Len(events)]

bulkUpsert(coll, events, embeddings) ==
    LET F[i \in 0..Len(events)] ==
            IF i = 0 THEN coll
            ELSE upsertEmbedding(F[i - 1], events[i].id, embeddings[i])
    IN  F[Len(events)]

\* addVectors(events, embeddings): in database mode the bulk write, then
\* refreshCache (which catches its own failure); a failed bulk write falls back to
\* the in-memory map
addVectors(vs, events, embeddings, dbOk, refreshOk) ==
    IF vs.useDatabase
    THEN IF dbOk
         THEN refreshCache([vs EXCEPT !.dbEmbeddings = bulkUpsert(@, events, embeddings)],
                           refreshOk)
         ELSE [vs EXCEPT !.inMemoryVectors = setAllInMemory(@, events, embeddings)]
    ELSE [vs EXCEPT !.inMemoryVectors = setAllInMemory(@, events, embeddings)]

\* cosineSimilarity throws when the lengths differ
cosineRaises(vecA, vecB) == Len(vecA) # Len(vecB)

RECURSIVE Dot(_, _)
Dot(vecA, vecB) ==
    IF vecA = <<>> THEN 0 ELSE Head(vecA) * Head(vecB) + Dot(Tail(vecA), Tail(vecB))

Sign(n) == IF n > 0 THEN 1 ELSE IF n < 0 THEN -1 ELSE 0

\* cosineSimilarity: dotProduct / (sqrt(normA) * sqrt(normB)), kept exactly as
\* sgn * sqrt(num / den); 0 when a norm is 0
cosineSimilarity(vecA, vecB) ==
    LET dotProduct == Dot(vecA, vecB)
        normA == Dot(vecA, vecA)
        normB == Dot(vecB, vecB)
    IN  IF normA = 0 \/ normB = 0 THEN [sgn |-> 0, num |-> 0, den |-> 1]
        ELSE [sgn |-> Sign(dotProduct), num |-> dotProduct * dotProduct,
              den |-> normA * normB]

\* x < y on similarities
SimLess(x, y) ==
    IF x.sgn # y.sgn THEN x.sgn < y.sgn
    ELSE IF x.sgn = 1 THEN x.num * y.den < y.num * x.den
    ELSE IF x.sgn = -1 THEN x.num * y.den > y.num * x.den
    ELSE FALSE

\* results.sort((a, b) => b.similarity - a.similarity): descending, stable
RECURSIVE InsertBySimilarity(_, _)
InsertBySimilarity(sorted, x) ==
    IF sorted = <<>> THEN <<x>>
    ELSE IF ~SimLess(sorted[Len(sorted)].similarity, x.similarity) THEN Append(sorted, x)
    ELSE Append(InsertBySimilarity(SubSeq(sorted, 1, Len(sorted) - 1), x),
                sorted[Len(sorted)])

sortBySimilarity(results) ==
    LET F[i \in 0..Len(results)] ==
            IF i = 0 THEN <<>> ELSE InsertBySimilarity(F[i - 1], results[i])
    IN  F[Len(results)]

\* the map search reads: the cache when in database mode with a cache, else the
\* in-memory map
vectorSource(vs) ==
    IF vs.useDatabase /\ IsSome(vs.vectorCache) THEN Val(vs.vectorCache)
    ELSE vs.inMemoryVectors

searchRaises(vs, queryEmbedding) ==
    \E i \in DOMAIN vectorSource(vs) :
        cosineRaises(queryEmbedding, vectorSource(vs)[i].embedding)

\* metadataMap.get(eventId) || data.metadata: the last event of eventMetadata with
\* that id, else the metadata stored with the vector
fullMetadata(eventMetadata, entry) ==
    IF \E i \in DOMAIN eventMetadata : eventMetadata[i].id = entry.eventId
    THEN eventMetadata[CHOOSE i \in DOMAIN eventMetadata :
                          /\ eventMetadata[i].id = entry.eventId
                          /\ \A j \in DOMAIN eventMetadata :
                                eventMetadata[j].id = entry.eventId => j <= i]
    ELSE entry.metadata

\* search without its sort: the first topK entries in insertion order
searchUnsorted(vs, queryEmbedding, topK, eventMetadata) ==
    LET source == vectorSource(vs)
        results == [i \in DOMAIN source |->
                      [ eventId |-> source[i].eventId,
                        metadata |-> fullMetadata(eventMetadata, source[i]),
                        similarity |-> cosineSimilarity(queryEmbedding,
                                                        source[i].embedding) ]]
    IN  SubSeq(results, 1, Min(topK, Len(results)))

\* search(queryEmbedding, topK, eventMetadata), when no similarity raises
search(vs, queryEmbedding, topK, eventMetadata) ==
    LET source == vectorSource(vs)
        results == [i \in DOMAIN source |->
                      [ eventId |-> source[i].eventId,
                        metadata |-> fullMetadata(eventMetadata, source[i]),
                        similarity |-> cosineSimilarity(queryEmbedding,
                                                        source[i].embedding) ]]
        sorted == sortBySimilarity(results)
    IN  SubSeq(sorted, 1, Min(topK, Len(sorted)))

\* size(): countDocuments, or the in-memory map when that fails
size(vs, dbOk) ==
    IF vs.useDatabase /\ dbOk THEN Len(vs.dbEmbeddings) ELSE Len(vs.inMemoryVectors)

isEmpty(vs, dbOk) == size(vs, dbOk) = 0

\* clear(): deleteMany and a new empty cache, or nothing of the two when the
\* delete fails; the in-memory map is cleared in every case
clearStore(vs, dbOk) ==
    IF vs.useDatabase /\ dbOk
    THEN [vs EXCEPT !.dbEmbeddings = <<>>, !.vectorCache = Some(<<>>),
                    !.inMemoryVectors = <<>>]
    ELSE [vs EXCEPT !.inMemoryVectors = <<>>]

\* hasEmbedding(eventId): findByEventId, or the in-memory map when that fails
hasEmbedding(vs, eventId, dbOk) ==
    IF vs.useDatabase /\ dbOk
    THEN \E i \in DOMAIN vs.dbEmbeddings : vs.dbEmbeddings[i].eventId = eventId
    ELSE mapHas(vs.inMemoryVectors, eventId)

(***************************************************************************)
(* Sample inputs: titles, date strings, sources and raw events.            *)
(***************************************************************************)
T_ArtFair == <<"A","r","t"," ","F","a","i","r">>
T_ArtFairCaps == <<"A","R","T"," ","F","A","I","R">>
T_TheArt == <<"T","h","e"," ","A","r","t">>
T_DohaFood2025 == <<"D","o","h","a"," ","F","o","o","d"," ","F","e","s","t","i","v","a","l"," ","2","0","2","5">>
T_DohaFood == <<"D","o","h","a"," ","F","o","o","d"," ","F","e","s","t","i","v","a","l">>
T_FestivalFood == <<"F","e","s","t","i","v","a","l"," ","F","o","o","d"," ","D","o","h","a">>
T_JazzNight == <<"J","a","z","z"," ","N","i","g","h","t">>
T_YogaClass == <<"Y","o","g","a"," ","C","l","a","s","s">>

SourceX == <<"X">>
SourceY == <<"Y">>

\* sample date strings: "5 May" (day 124 of the year), the same with a time of
\* day, and "6 May"; the sample clock stands on 1 May 2025 (day 120)
DateStr(kind, year, doy, tod) == [kind |-> kind, year |-> year, doy |-> doy, tod |-> tod]
May5      == DateStr("md", 0, 124, 0)
May5Late  == DateStr("md", 0, 124, 1)
May6      == DateStr("md", 0, 125, 0)

NowSamples == {MakeDate(2025, 120, 0)}

RawEvent(id, title, date, category) ==
    [ id |-> id, title |-> title, description |-> None, date |-> date,
      endDate |-> None, time |-> None, price |-> None, category |-> category,
      image |-> None, link |-> None, venue |-> None, organizer |-> None ]

Titled(title, date) == RawEvent(None, Some(title), Some(date), None)

(***************************************************************************)
(* SpecDedupe: removeDuplicates applied to every list of at most MaxLen    *)
(* canonical events drawn from DedupeEvents.                               *)
(***************************************************************************)
MaxLen == 3

DedupeEvents(nowTs) ==
    {normalizeEvent(Titled(t, May5), SourceX, nowTs) :
        t \in {T_ArtFair, T_ArtFairCaps, T_TheArt, T_DohaFood2025, T_DohaFood,
               T_FestivalFood, T_JazzNight, T_YogaClass}}
    \cup {normalizeEvent(Titled(T_ArtFairCaps, May5Late), SourceY, nowTs),
          normalizeEvent(Titled(T_ArtFair, May6), SourceX, nowTs),
          normalizeEvent(Titled(T_DohaFood2025, May5), SourceY, nowTs),
          normalizeEvent(Titled(T_TheArt, May5), SourceY, nowTs)}

CatIdle ==
    /\ inMemoryEvents = <<>>
    /\ lastUpdate = NoTime
    /\ useDatabase = FALSE
    /\ dbEvents = <<>>
    /\ dbPending = <<>>
    /\ now \in NowSamples
    /\ queryRes = [op |-> "none"]

BotIdle ==
    /\ vectorStore = <<>>
    /\ twinStore = <<>>
    /\ storeRes = <<>>
    /\ hasApiKey = FALSE
    /\ isInitialized = FALSE
    /\ embedLog = <<>>
    /\ genCalls = 0
    /\ chatRes = [op |-> "none"]

SrvIdle ==
    /\ isScrapingInProgress = FALSE
    /\ scrapingError = None
    /\ lastScrapingTime = NoTime
    /\ runs = <<>>
    /\ httpRes = [op |-> "none"]

FnIdle ==
    /\ dedupeIn = <<>> /\ dedupeOut = None
    /\ callArgs = <<>> /\ callRes = None

InitDedupe ==
    /\ CatIdle /\ BotIdle /\ SrvIdle
    /\ dedupeIn \in SeqsUpTo(DedupeEvents(now), MaxLen)
    /\ dedupeOut = None
    /\ callArgs = <<>> /\ callRes = None

\* removeDuplicates(events), and removeDuplicates applied to its own result
RunDedupe ==
    /\ dedupeOut = None
    /\ LET once == removeDuplicates(dedupeIn)
       IN  dedupeOut' = Some([ idx   |-> removeDuplicatesIdx(dedupeIn),
                               once  |-> once,
                               twice |-> removeDuplicates(once) ])
    /\ UNCHANGED <<dedupeIn, callArgs, callRes, catVars, botVars, srvVars>>

NextDedupe == RunDedupe

SpecDedupe == InitDedupe /\ [][NextDedupe]_vars

SameTitleSameDay(e1, e2) ==
    /\ normalizeTitle(e1.title) = normalizeTitle(e2.title)
    /\ toDateString(e1.date) = toDateString(e2.date)

\* C2: removeDuplicates is idempotent: applied to its own result it returns that
\* result, the same events in the same order.
C2_DedupeIdempotent ==
    IsSome(dedupeOut) => Val(dedupeOut).twice = Val(dedupeOut).once

\* removeDuplicates has dropped the middle link of a chain whose ends are not
\* similar to each other, and kept both ends
C2_Witness ==
    /\ IsSome(dedupeOut)
    /\ Len(dedupeIn) = 3
    /\ Val(dedupeOut).idx = <<1, 3>>
    /\ areEventsSimilar(dedupeIn[2], dedupeIn[1])
    /\ areEventsSimilar(dedupeIn[3], dedupeIn[2])
    /\ Val(dedupeOut).twice = Val(dedupeOut).once

\* C3 as stated: of two events with identical normalized titles on the same
\* calendar day, the earlier-indexed one is in the output and the later one is not,
\* whatever the rest of the input.
C3_EarlierAlwaysSurvives ==
    IsSome(dedupeOut) =>
        \A i, j \in DOMAIN dedupeIn :
            (i < j /\ SameTitleSameDay(dedupeIn[i], dedupeIn[j])) =>
                /\ i \in Range(Val(dedupeOut).idx)
                /\ j \notin Range(Val(dedupeOut).idx)

\* C3 amended: of two events with identical normalized titles on the same calendar
\* day the later-indexed one is never in the output, and the earlier-indexed one is
\* in the output unless an event kept before it is similar to it (then neither of
\* the two survives and that event stands for both).
C3_LaterNeverSurvives ==
    IsSome(dedupeOut) =>
        \A i, j \in DOMAIN dedupeIn :
            (i < j /\ SameTitleSameDay(dedupeIn[i], dedupeIn[j])) =>
                /\ j \notin Range(Val(dedupeOut).idx)
                /\ \/ i \in Range(Val(dedupeOut).idx)
                   \/ \E k \in Range(Val(dedupeOut).idx) :
                         k < i /\ areEventsSimilar(dedupeIn[i], dedupeIn[k])

\* two events with the same normalized title on one day, from different sources,
\* separated by an unrelated event: the first is kept and the last is dropped
C3_Witness ==
    /\ IsSome(dedupeOut)
    /\ Len(dedupeIn) = 3
    /\ SameTitleSameDay(dedupeIn[1], dedupeIn[3])
    /\ dedupeIn[1].source # dedupeIn[3].source
    /\ dedupeIn[1].title # dedupeIn[3].title
    /\ Val(dedupeOut).idx = <<1, 2>>

(***************************************************************************)
(* SpecCatalog: the EventAggregator in either mode, every call awaited,    *)
(* with database calls that succeed or fail.                               *)
(***************************************************************************)
MaxEvents == 3

Food == <<"F","o","o","d">>
FoodLower == <<"f","o","o","d">>
NativeId7 == <<"7">>

\* batches the collectors hand over, each with the source it comes from
Feed(source, events) == [source |-> source, events |-> events]
SampleFeeds ==
    { Feed(SourceX, <<Titled(T_ArtFair, May5)>>),
      Feed(SourceY, <<Titled(T_ArtFairCaps, May5)>>),
      Feed(SourceX, <<Titled(T_ArtFair, May6)>>),
      Feed(SourceX, <<RawEvent(None, Some(T_DohaFood2025), Some(May5Late), Some(Food)),
                      Titled(T_JazzNight, May6)>>),
      Feed(SourceY, <<RawEvent(None, Some(T_DohaFood), Some(May5), Some(FoodLower))>>),
      Feed(SourceY, <<RawEvent(Some(NativeId7), None, None, None)>>),
      Feed(SourceX, <<RawEvent(None, None, None, None)>>) }

\* [startDate, endDate] pairs asked for: the day of 5 May, the 30 days from now,
\* and 5 May from its second tick on
SampleRanges(nowTs) ==
    { <<MakeDate(2025, 124, 0), MakeDate(2025, 124, TicksPerDay - 1)>>,
      <<nowTs, nowTs + ThirtyDays * TicksPerDay>>,
      <<MakeDate(2025, 124, 1), MakeDate(2025, 124, TicksPerDay - 1)>> }

SampleCategories == {FoodLower, General}

SetAgg(agg) ==
    /\ inMemoryEvents' = agg.inMemoryEvents
    /\ lastUpdate' = agg.lastUpdate
    /\ dbEvents' = agg.dbEvents
    /\ UNCHANGED <<useDatabase, dbPending, now>>

InitCatalog ==
    /\ inMemoryEvents = <<>>
    /\ lastUpdate = NoTime
    /\ useDatabase \in BOOLEAN
    /\ dbEvents = <<>>
    /\ dbPending = <<>>
    /\ now \in NowSamples
    /\ queryRes = [op |-> "none"]
    /\ BotIdle /\ SrvIdle
    /\ FnIdle

\* the number of events addEvents was given since the last clear(), carried along
\* in queryRes
Ingested == IF "ingested" \in DOMAIN queryRes THEN queryRes.ingested ELSE 0

CatAddEvents ==
    \E feed \in SampleFeeds, dbOk \in BOOLEAN :
        /\ Len(inMemoryEvents) + Len(dbEvents) + Len(feed.events) <= MaxEvents
        /\ Ingested + Len(feed.events) <= MaxEvents
        /\ IF batchRaises(feed.events)
           THEN /\ queryRes' = [op |-> "addEvents", raised |-> TRUE,
                                ingested |-> Ingested]
                /\ UNCHANGED <<inMemoryEvents, lastUpdate, dbEvents, useDatabase,
                               dbPending, now>>
           ELSE /\ SetAgg(addEvents(Agg, feed.events, feed.source, now, dbOk))
                /\ queryRes' = [op |-> "addEvents", raised |-> FALSE,
                                ingested |-> Ingested + Len(feed.events)]
        /\ UNCHANGED <<botVars, srvVars, fnVars>>

CatClear ==
    \E dbOk \in BOOLEAN :
        /\ SetAgg(clear(Agg, dbOk))
        /\ queryRes' = [op |-> "clear", ingested |-> 0]
        /\ UNCHANGED <<botVars, srvVars, fnVars>>

CatGetAllEvents ==
    \E dbOk \in BOOLEAN :
        /\ queryRes' = [op |-> "all", events |-> getAllEvents(Agg, dbOk),
                        fromDb |-> useDatabase /\ dbOk, ingested |-> Ingested]
        /\ UNCHANGED <<inMemoryEvents, lastUpdate, dbEvents, useDatabase, dbPending, now,
                       botVars, srvVars, fnVars>>

CatFilterByDateRange ==
    \E range \in SampleRanges(now), dbOk \in BOOLEAN :
        /\ queryRes' = [op |-> "range", startDate |-> range[1], endDate |-> range[2],
                        events |-> filterByDateRange(Agg, range[1], range[2], dbOk),
                        fromDb |-> useDatabase /\ dbOk, ingested |-> Ingested]
        /\ UNCHANGED <<inMemoryEvents, lastUpdate, dbEvents, useDatabase, dbPending, now,
                       botVars, srvVars, fnVars>>

CatGetEventsByCategory ==
    \E category \in SampleCategories, dbOk \in BOOLEAN, dbOkAgain \in BOOLEAN :
        /\ queryRes' = [op |-> "category", category |-> category,
                        events |-> getEventsByCategory(Agg, category, dbOk, dbOkAgain),
                        fromDb |-> useDatabase /\ (dbOk \/ dbOkAgain),
                        ingested |-> Ingested]
        /\ UNCHANGED <<inMemoryEvents, lastUpdate, dbEvents, useDatabase, dbPending, now,
                       botVars, srvVars, fnVars>>

CatGetCategories ==
    \E dbOk \in BOOLEAN :
        /\ queryRes' = [op |-> "categories", categories |-> getCategories(Agg, dbOk),
                        ingested |-> Ingested]
        /\ UNCHANGED <<inMemoryEvents, lastUpdate, dbEvents, useDatabase, dbPending, now,
                       botVars, srvVars, fnVars>>

CatGetStats ==
    \E dbOk \in BOOLEAN, dbOkAgain \in BOOLEAN :
        /\ queryRes' = [op |-> "stats", stats |-> getStats(Agg, dbOk, dbOkAgain),
                        ingested |-> Ingested]
        /\ UNCHANGED <<inMemoryEvents, lastUpdate, dbEvents, useDatabase, dbPending, now,
                       botVars, srvVars, fnVars>>

NextCatalog ==
    \/ CatAddEvents
    \/ CatClear
    \/ CatGetAllEvents
    \/ CatFilterByDateRange
    \/ CatGetEventsByCategory
    \/ CatGetCategories
    \/ CatGetStats

SpecCatalog == InitCatalog /\ [][NextCatalog]_vars

\* no two events of the list lie on the same calendar day with titles that satisfy
\* the similarity test
Deduplicated(events) ==
    \A i, j \in DOMAIN events : i # j => ~areEventsSimilar(events[i], events[j])

\* C1: in both modes getAllEvents, filterByDateRange and getEventsByCategory return
\* a de-duplicated list: no two returned events are on the same calendar day with
\* titles that satisfy the similarity test (after 'Art Fair' from X and 'ART FAIR'
\* from Y with the same date, getAllEvents returns one event).
C1_QueriesDeduplicated ==
    queryRes.op \in {"all", "range", "category"} => Deduplicated(queryRes.events)

\* the same statement for the answers that did not come from the database
C1_MemoryQueriesDeduplicated ==
    (queryRes.op \in {"all", "range", "category"} /\ ~queryRes.fromDb)
        => Deduplicated(queryRes.events)

(***************************************************************************)
(* SpecStore: one VectorStore that initialize() may put in database mode   *)
(* and a second one that stays in memory-only mode, given the same calls.  *)
(* Database calls of the first succeed or fail, at most MaxDbFailures of   *)
(* them; storeRes.dbFailures counts the failures so far.                   *)
(***************************************************************************)
MaxDbFailures == 2
TopK == 5

SampleVectors == { <<1, 0>>, <<1, 1>> }
\* a vector of another dimensionality
ShortVector == <<1>>

StoreEventA(nowTs) == normalizeEvent(Titled(T_ArtFair, May5), SourceX, nowTs)
StoreEventB(nowTs) == normalizeEvent(Titled(T_JazzNight, May6), SourceY, nowTs)
StoreEvents(nowTs) == {StoreEventA(nowTs), StoreEventB(nowTs)}

\* the batches addVectors is given: events with their embeddings
IndexBatch(events, embeddings) == [events |-> events, embeddings |-> embeddings]
SampleIndexBatches(nowTs) ==
    { IndexBatch(<<StoreEventA(nowTs)>>, << <<1, 1>> >>),
      IndexBatch(<<StoreEventB(nowTs), StoreEventA(nowTs)>>, << <<1, 1>>, <<1, 0>> >>),
      IndexBatch(<<StoreEventA(nowTs), StoreEventB(nowTs)>>, << <<1, 1>>, <<1, 1>> >>) }

InitStore ==
    /\ CatIdle /\ SrvIdle
    /\ vectorStore = NewVectorStore
    /\ twinStore = NewVectorStore
    /\ storeRes = [op |-> "new", dbFailures |-> 0]
    /\ hasApiKey = FALSE
    /\ isInitialized = FALSE
    /\ embedLog = <<>>
    /\ genCalls = 0
    /\ chatRes = [op |-> "none"]
    /\ FnIdle

StoreUnchanged == UNCHANGED <<hasApiKey, isInitialized, embedLog, genCalls, chatRes,
                              catVars, srvVars, fnVars>>

\* the outcomes of one database call of the first store: it can fail only when
\* there is a database, and only MaxDbFailures calls fail
DbOutcomes(useDb) ==
    IF useDb /\ storeRes.dbFailures < MaxDbFailures THEN {TRUE, FALSE} ELSE {TRUE}

Failures(ok) == storeRes.dbFailures + (IF ok THEN 0 ELSE 1)

StoreInitialize ==
    \E isConnected \in BOOLEAN :
      \E dbOk \in DbOutcomes(isConnected) :
        /\ storeRes.op = "new"
        /\ vectorStore' = initializeStore(vectorStore, isConnected, dbOk)
        /\ twinStore' = initializeStore(twinStore, FALSE, TRUE)
        /\ storeRes' = [op |-> "initialize", dbFailures |-> Failures(dbOk)]
        /\ StoreUnchanged

StoreAddVector ==
    \E event \in StoreEvents(now), embedding \in SampleVectors \cup {ShortVector},
       dbOk \in DbOutcomes(vectorStore.useDatabase) :
        /\ vectorStore' = addVector(vectorStore, event.id, embedding,
                                    IndexMetadata(event), dbOk)
        /\ twinStore' = addVector(twinStore, event.id, embedding,
                                  IndexMetadata(event), TRUE)
        /\ storeRes' = [op |-> "addVector", written |-> {event.id},
                        writeFailed |-> ~dbOk, dbFailures |-> Failures(dbOk)]
        /\ StoreUnchanged

\* the bulk write fails, or it succeeds and the read of refreshCache fails, or both
\* succeed
StoreAddVectors ==
    \E batch \in SampleIndexBatches(now),
       dbOk \in DbOutcomes(vectorStore.useDatabase),
       refreshOk \in DbOutcomes(vectorStore.useDatabase) :
        /\ dbOk \/ refreshOk
        /\ vectorStore' = addVectors(vectorStore, batch.events, batch.embeddings,
                                     dbOk, refreshOk)
        /\ twinStore' = addVectors(twinStore, batch.events, batch.embeddings, TRUE, TRUE)
        /\ storeRes' = [op |-> "addVectors",
                        written |-> {batch.events[i].id : i \in DOMAIN batch.events},
                        writeFailed |-> ~dbOk, dbFailures |-> Failures(dbOk /\ refreshOk)]
        /\ StoreUnchanged

\* a search that leaves out the vectors of another dimensionality and ranks the rest
SearchOutcomeSkipping(vs, queryEmbedding, topK, eventMetadata) ==
    LET fits(entry) == ~cosineRaises(queryEmbedding, entry.embedding)
        rest == [vs EXCEPT !.inMemoryVectors = SelectSeq(@, fits),
                           !.vectorCache = IF IsSome(@)
                                           THEN Some(SelectSeq(Val(@), fits)) ELSE @]
    IN  [raised |-> FALSE, results |-> search(rest, queryEmbedding, topK, eventMetadata)]

\* what a call of search gives back: the ranked list, or the error raised
SearchOutcome(vs, queryEmbedding, topK, eventMetadata) ==
    IF searchRaises(vs, queryEmbedding)
    THEN [raised |-> TRUE, results |-> <<>>]
    ELSE [raised |-> FALSE, results |-> search(vs, queryEmbedding, topK, eventMetadata)]

\* the caller's current catalog: none of the events, or all of them
SampleMetadata(nowTs) == { <<>>, <<StoreEventA(nowTs), StoreEventB(nowTs)>> }

StoreSearch ==
    \E queryEmbedding \in SampleVectors, topK \in {1, TopK},
       eventMetadata \in SampleMetadata(now) :
        /\ storeRes' = [op |-> "search", topK |-> topK, query |-> queryEmbedding,
                        db  |-> SearchOutcome(vectorStore, queryEmbedding, topK, eventMetadata),
                        mem |-> SearchOutcome(twinStore, queryEmbedding, topK, eventMetadata),
                        dbFailures |-> storeRes.dbFailures]
        /\ UNCHANGED <<vectorStore, twinStore>>
        /\ StoreUnchanged

StoreSize ==
    \E dbOk \in DbOutcomes(vectorStore.useDatabase) :
        /\ storeRes' = [op |-> "size", db |-> size(vectorStore, dbOk),
                        mem |-> size(twinStore, TRUE),
                        dbFailures |-> Failures(dbOk)]
        /\ UNCHANGED <<vectorStore, twinStore>>
        /\ StoreUnchanged

StoreHasEmbedding ==
    \E event \in StoreEvents(now), dbOk \in DbOutcomes(vectorStore.useDatabase) :
        /\ storeRes' = [op |-> "has", db |-> hasEmbedding(vectorStore, event.id, dbOk),
                        mem |-> hasEmbedding(twinStore, event.id, TRUE),
                        dbFailures |-> Failures(dbOk)]
        /\ UNCHANGED <<vectorStore, twinStore>>
        /\ StoreUnchanged

StoreClear ==
    \E dbOk \in DbOutcomes(vectorStore.useDatabase) :
        /\ vectorStore' = clearStore(vectorStore, dbOk)
        /\ twinStore' = clearStore(twinStore, TRUE)
        /\ storeRes' = [op |-> "clear", dbFailures |-> Failures(dbOk)]
        /\ StoreUnchanged

NextStore ==
    \/ StoreInitialize
    \/ StoreAddVector
    \/ StoreAddVectors
    \/ StoreSearch
    \/ StoreSize
    \/ StoreHasEmbedding
    \/ StoreClear

SpecStore == InitStore /\ [][NextStore]_vars

\* C9: when the database write of addVector or addVectors fails, the in-memory
\* mutation is still applied: after the call returns, a search that asks for at least
\* as many results as there are vectors returns an entry for every event id the call
\* wrote.
C9_WrittenIsSearchable ==
    (storeRes.op \in {"addVector", "addVectors"} /\ storeRes.writeFailed) =>
        \A queryEmbedding \in SampleVectors \cup {ShortVector} :
            ~searchRaises(vectorStore, queryEmbedding) =>
                LET found == search(vectorStore, queryEmbedding,
                                    Len(vectorStore.inMemoryVectors)
                                        + Len(vectorStore.dbEmbeddings), <<>>)
                IN  storeRes.written \subseteq {found[i].eventId : i \in DOMAIN found}

\* C10: while no database call has failed, the store in database mode and the
\* store in memory-only mode answer search, size and hasEmbedding alike.
C10_ModesAgree ==
    (storeRes.op \in {"search", "size", "has"} /\ storeRes.dbFailures = 0) =>
        storeRes.db = storeRes.mem

\* the place of an event id in a map
PlaceOf(source, eventId) == CHOOSE p \in DOMAIN source : source[p].eventId = eventId

\* results is the ranking of source against query, cut at topK
IsRanking(results, source, query, topK) ==
    LET sim(p) == cosineSimilarity(query, source[p].embedding)
        returned == {results[i].eventId : i \in DOMAIN results}
    IN  /\ Len(results) = Min(topK, Len(source))
        /\ \A i \in DOMAIN results :
              /\ \E p \in DOMAIN source : source[p].eventId = results[i].eventId
              /\ results[i].similarity = sim(PlaceOf(source, results[i].eventId))
        /\ \A i, j \in DOMAIN results :
              i < j =>
                 /\ results[i].eventId # results[j].eventId
                 /\ ~SimLess(results[i].similarity, results[j].similarity)
                 /\ ~SimLess(results[j].similarity, results[i].similarity) =>
                       PlaceOf(source, results[i].eventId)
                           < PlaceOf(source, results[j].eventId)
        /\ \A p \in DOMAIN source, i \in DOMAIN results :
              source[p].eventId \notin returned =>
                  ~SimLess(results[i].similarity, sim(p))

\* C16: search(queryVector, k, metadata), for a query of the stored vectors'
\* dimensionality, returns exactly min(k, number of stored vectors) results, each
\* stored event id at most once, sorted by descending cosine similarity with ties
\* kept in store insertion order, and no stored vector left out has a strictly
\* higher similarity than one returned; on an empty store it returns an empty list
\* and no error.
C16_SearchRanks ==
    storeRes.op = "search" =>
        /\ ~storeRes.db.raised =>
              IsRanking(storeRes.db.results, vectorSource(vectorStore),
                        storeRes.query, storeRes.topK)
        /\ ~storeRes.mem.raised =>
              IsRanking(storeRes.mem.results, vectorSource(twinStore),
                        storeRes.query, storeRes.topK)
        /\ vectorSource(vectorStore) = <<>> =>
              storeRes.db = [raised |-> FALSE, results |-> <<>>]
        /\ vectorSource(twinStore) = <<>> =>
              storeRes.mem = [raised |-> FALSE, results |-> <<>>]

\* a search that returns the later-stored of two vectors first, because it is the
\* more similar one
C16_Witness ==
    /\ storeRes.op = "search" /\ storeRes.topK = TopK
    /\ ~storeRes.db.raised /\ ~storeRes.mem.raised
    /\ vectorStore.useDatabase
    /\ Len(vectorSource(vectorStore)) = 2 /\ Len(storeRes.db.results) = 2
    /\ storeRes.db.results[1].eventId = vectorSource(vectorStore)[2].eventId
    /\ Len(vectorSource(twinStore)) = 2
    /\ storeRes.mem.results[1].eventId = vectorSource(twinStore)[2].eventId

\* the map search reads holds a vector whose length differs from the query's
Mismatch(vs, queryEmbedding) ==
    \E i \in DOMAIN vectorSource(vs) :
        Len(vectorSource(vs)[i].embedding) # Len(queryEmbedding)

\* C21: a dimensionality mismatch aborts the operation instead of degrading: a
\* search whose query vector differs in length from any stored vector raises the
\* error of cosineSimilarity rather than returning a ranking over the remaining
\* vectors, a search without such a vector raises nothing, and the store's
\* contents are unchanged by the failed search.
C21_MismatchAborts ==
    /\ [](storeRes.op = "search" =>
             /\ storeRes.db.raised = Mismatch(vectorStore, storeRes.query)
             /\ storeRes.mem.raised = Mismatch(twinStore, storeRes.query)
             /\ storeRes.db.raised => storeRes.db.results = <<>>
             /\ storeRes.mem.raised => storeRes.mem.results = <<>>)
    /\ [][storeRes'.op = "search" =>
             /\ vectorStore' = vectorStore
             /\ twinStore' = twinStore]_vars

\* a failed search over two stored vectors, one of them of the query's length
C21_Witness ==
    /\ storeRes.op = "search" /\ storeRes.db.raised /\ storeRes.mem.raised
    /\ Len(vectorSource(vectorStore)) = 2 /\ Len(vectorSource(twinStore)) = 2
    /\ \E i \in DOMAIN vectorSource(vectorStore) :
          Len(vectorSource(vectorStore)[i].embedding) = Len(storeRes.query)

(***************************************************************************)
(* The Chatbot (unnamed/part_001, lines 120-324) over its VectorStore.     *)
(* A bot is the record [vectorStore, hasApiKey, isInitialized].  What the  *)
(* providers and the database do during one call is the record `out` the   *)
(* operators take: the call reads the outcomes of the steps it reaches.    *)
(***************************************************************************)
NotConfiguredMessage == "I'm sorry, but the chatbot is not configured."
NothingIndexedMessage == "I don't have any events indexed yet."
ErrorMessage == "I'm sorry, I encountered an error processing your request."
GeneratedResponse == "result.response.text()"

Bot == [vectorStore |-> vectorStore, hasApiKey |-> hasApiKey,
        isInitialized |-> isInitialized]

\* the ids that have an embedding in the store, in the collection or in the map
indexedIds(vs) ==
    {vs.dbEmbeddings[i].eventId : i \in DOMAIN vs.dbEmbeddings}
        \cup {vs.inMemoryVectors[i].eventId : i \in DOMAIN vs.inMemoryVectors}

\* the number of FALSE among the values of a function to BOOLEAN
RECURSIVE CountFalse(_, _)
CountFalse(f, n) == IF n = 0 THEN 0 ELSE CountFalse(f, n - 1) + (IF f[n] THEN 0 ELSE 1)

\* indexEvents(events): the events without an embedding, one embedding call each in
\* order, then addVectors; an embedding call that throws ends the call in the catch
\* block with nothing stored
indexEvents(bot, events, out) ==
    IF ~bot.hasApiKey \/ ~bot.isInitialized
    THEN [vectorStore |-> bot.vectorStore, embedded |-> <<>>, dbFailed |-> 0]
    ELSE LET vs == bot.vectorStore
             NotIndexed(i) == ~hasEmbedding(vs, events[i].id, out.has[i])
             toIndex == SelectIdx(events, NotIndexed)
             eventsToIndex == [k \in DOMAIN toIndex |-> events[toIndex[k]]]
             hasFailed == IF vs.useDatabase THEN CountFalse(out.has, Len(events)) ELSE 0
             Thrown(k) == out.embed[toIndex[k]] = None
             thrown == SelectIdx(toIndex, Thrown)
             embeddings == [k \in DOMAIN toIndex |-> Val(out.embed[toIndex[k]])]
             writeFailed == IF vs.useDatabase
                            THEN (IF out.write THEN (IF out.refresh THEN 0 ELSE 1) ELSE 1)
                            ELSE 0
         IN  IF eventsToIndex = <<>>
             THEN [vectorStore |-> vs, embedded |-> <<>>, dbFailed |-> hasFailed]
             ELSE IF thrown # <<>>
             THEN [vectorStore |-> vs,
                   embedded |-> [k \in 1..thrown[1] |-> eventsToIndex[k].id],
                   dbFailed |-> hasFailed]
             ELSE [vectorStore |-> addVectors(vs, eventsToIndex, embeddings,
                                              out.write, out.refresh),
                   embedded |-> [k \in DOMAIN toIndex |-> eventsToIndex[k].id],
                   dbFailed |-> hasFailed + writeFailed]

\* what chat answers: the reply, whether the call threw, and the calls it made
ChatReply(response, events, raised, tried) ==
    [ response |-> response, events |-> events, raised |-> raised,
      embedCalls |-> tried.embedCalls, searchCalls |-> tried.searchCalls,
      genCalls |-> tried.genCalls, failed |-> tried.failed ]

NothingTried ==
    [failed |-> "none", results |-> <<>>, embedCalls |-> 0, searchCalls |-> 0,
     genCalls |-> 0]

\* the body of the try block of chat: generateEmbedding, search with topK 5,
\* generateContent; `failed` names the step that threw
tryRetrieve(bot, allEvents, out) ==
    IF out.embed = None
    THEN [NothingTried EXCEPT !.failed = "embed", !.embedCalls = 1]
    ELSE IF searchRaises(bot.vectorStore, Val(out.embed))
    THEN [NothingTried EXCEPT !.failed = "search", !.embedCalls = 1, !.searchCalls = 1]
    ELSE LET results == search(bot.vectorStore, Val(out.embed), TopK, allEvents)
         IN  [ failed |-> IF out.gen THEN "none" ELSE "generate",
               results |-> [i \in DOMAIN results |-> results[i].metadata],
               embedCalls |-> 1, searchCalls |-> 1, genCalls |-> 1 ]

\* chat without the catch block: a step that throws ends the call with the error,
\* after the events were retrieved
chatUncaught(bot, allEvents, out) ==
    IF ~bot.hasApiKey
    THEN ChatReply(NotConfiguredMessage, <<>>, FALSE, NothingTried)
    ELSE IF isEmpty(bot.vectorStore, out.size)
    THEN ChatReply(NothingIndexedMessage, <<>>, FALSE, NothingTried)
    ELSE LET tried == tryRetrieve(bot, allEvents, out)
         IN  IF tried.failed # "none"
             THEN ChatReply(ErrorMessage, tried.results, TRUE, tried)
             ELSE ChatReply(GeneratedResponse, tried.results, FALSE, tried)

\* chat without the isEmpty test: retrieval is attempted on an empty store
chatWithoutEmptyTest(bot, allEvents, out) ==
    IF ~bot.hasApiKey
    THEN ChatReply(NotConfiguredMessage, <<>>, FALSE, NothingTried)
    ELSE LET tried == tryRetrieve(bot, allEvents, out)
         IN  IF tried.failed # "none"
             THEN ChatReply(ErrorMessage, <<>>, FALSE, tried)
             ELSE ChatReply(GeneratedResponse, tried.results, FALSE, tried)

\* chat(userQuery, allEvents)
chat(bot, allEvents, out) ==
    IF ~bot.hasApiKey
    THEN ChatReply(NotConfiguredMessage, <<>>, FALSE, NothingTried)
    ELSE IF isEmpty(bot.vectorStore, out.size)
    THEN ChatReply(NothingIndexedMessage, <<>>, FALSE, NothingTried)
    ELSE LET tried == tryRetrieve(bot, allEvents, out)
         IN  IF tried.failed # "none"
             THEN ChatReply(ErrorMessage, <<>>, FALSE, tried)
             ELSE ChatReply(GeneratedResponse, tried.results, FALSE, tried)

(***************************************************************************)
(* SpecChat: one Chatbot, with or without an API key; initialize, then     *)
(* indexEvents and chat in any order.  The embedding provider answers an   *)
(* event with its sample vector or throws; database calls fail at most     *)
(* MaxDbFailures times (storeRes.dbFailures counts them).                  *)
(***************************************************************************)
\* the embedding the provider gives for the text of an event
SampleEmbedding(event, nowTs) ==
    IF event.id = StoreEventA(nowTs).id THEN <<1, 0>> ELSE <<1, 1>>

SampleEventLists(nowTs) ==
    { <<StoreEventA(nowTs)>>, <<StoreEventB(nowTs)>>,
      <<StoreEventA(nowTs), StoreEventB(nowTs)>> }

InitChat ==
    /\ CatIdle /\ SrvIdle
    /\ vectorStore = NewVectorStore
    /\ twinStore = NewVectorStore
    /\ storeRes = [op |-> "new", dbFailures |-> 0]
    /\ hasApiKey \in BOOLEAN
    /\ isInitialized = FALSE
    /\ embedLog = <<>>
    /\ genCalls = 0
    /\ chatRes = [op |-> "none"]
    /\ FnIdle

\* Chatbot.initialize(database)
BotInitialize ==
    \E isConnected \in BOOLEAN :
      \E dbOk \in DbOutcomes(isConnected) :
        /\ ~isInitialized
        /\ vectorStore' = initializeStore(vectorStore, isConnected, dbOk)
        /\ isInitialized' = TRUE
        /\ storeRes' = [op |-> "initialize", dbFailures |-> Failures(dbOk)]
        /\ chatRes' = [op |-> "initialize"]
        /\ embedLog' = <<>> /\ genCalls' = 0
        /\ UNCHANGED <<twinStore, hasApiKey, catVars, srvVars, fnVars>>

\* what the database and the embedding provider do during one indexEvents call
IndexOutcomes(events) ==
    { out \in [ has : [DOMAIN events -> DbOutcomes(vectorStore.useDatabase)],
                write : DbOutcomes(vectorStore.useDatabase),
                refresh : DbOutcomes(vectorStore.useDatabase),
                embed : [DOMAIN events ->
                            {None} \cup {Some(SampleEmbedding(events[i], now)) :
                                            i \in DOMAIN events}] ] :
        /\ \A i \in DOMAIN events :
              out.embed[i] \in {None, Some(SampleEmbedding(events[i], now))}
        /\ storeRes.dbFailures + indexEvents(Bot, events, out).dbFailed <= MaxDbFailures }

BotIndexEvents ==
    \E events \in SampleEventLists(now) :
      \E out \in IndexOutcomes(events) :
        LET done == indexEvents(Bot, events, out)
        IN  /\ vectorStore' = done.vectorStore
            /\ embedLog' = done.embedded
            /\ genCalls' = 0
            /\ chatRes' = [ op |-> "indexEvents", events |-> events,
                            indexedBefore |-> indexedIds(vectorStore),
                            canEmbed |-> {events[i].id : i \in
                                            {j \in DOMAIN events : out.embed[j] # None}} ]
            /\ storeRes' = [op |-> "indexEvents",
                            dbFailures |-> storeRes.dbFailures + done.dbFailed]
            /\ UNCHANGED <<twinStore, hasApiKey, isInitialized, catVars, srvVars, fnVars>>

ChatOutcomes ==
    [ size : DbOutcomes(vectorStore.useDatabase),
      embed : {None} \cup {Some(v) : v \in SampleVectors \cup {ShortVector}},
      gen : BOOLEAN ]

BotChat ==
    \E allEvents \in SampleMetadata(now), out \in ChatOutcomes :
        LET reply == chat(Bot, allEvents, out)
        IN  /\ chatRes' = [ op |-> "chat", reply |-> reply,
                            indexedBefore |-> indexedIds(vectorStore) ]
            /\ embedLog' = <<>>
            /\ genCalls' = reply.genCalls
            /\ storeRes' = [op |-> "chat",
                            dbFailures |-> storeRes.dbFailures
                                + (IF hasApiKey /\ ~out.size THEN 1 ELSE 0)]
            /\ UNCHANGED <<vectorStore, twinStore, hasApiKey, isInitialized,
                           catVars, srvVars, fnVars>>

NextChat ==
    \/ BotInitialize
    \/ BotIndexEvents
    \/ BotChat

SpecChat == InitChat /\ [][NextChat]_vars

\* C5: indexing is incremental: an event that already has an embedding in the
\* store is never passed to the embedding provider again, so a second indexEvents
\* call with the same list makes no embedding call.
C5_NeverReembedded ==
    chatRes.op = "indexEvents" => Range(embedLog) \cap chatRes.indexedBefore = {}

\* C6: when the embedding call fails for one event of an indexEvents call, that
\* event is skipped and every other event of the call that was not indexed yet is
\* still embedded and stored.
C6_FailureSkipsOnlyThatEvent ==
    LET ids == {chatRes.events[i].id : i \in DOMAIN chatRes.events} \ chatRes.indexedBefore
    IN  (/\ chatRes.op = "indexEvents"
         /\ hasApiKey /\ isInitialized
         /\ ids \ chatRes.canEmbed # {})
            => \A id \in ids \cap chatRes.canEmbed :
                  /\ id \in Range(embedLog)
                  /\ id \in indexedIds(vectorStore)

\* C7: chat never throws: when the embedding of the query, the search or the
\* generation call fails, or no API key is configured, it returns a fixed apologetic
\* message with an empty event list; events are returned only after a generation
\* call that succeeded.
C7_ChatNeverFails ==
    chatRes.op = "chat" =>
        LET reply == chatRes.reply
        IN  /\ ~reply.raised
            /\ (reply.failed # "none" \/ ~hasApiKey) =>
                  /\ reply.response \in {ErrorMessage, NotConfiguredMessage}
                  /\ reply.events = <<>>
            /\ reply.events # <<>> => (reply.genCalls = 1 /\ reply.failed = "none")

\* the generation call failed after events were found, and the reply is the error
\* message without events
C7_Witness ==
    /\ chatRes.op = "chat"
    /\ chatRes.reply.failed = "generate"
    /\ chatRes.indexedBefore # {}
    /\ chatRes.reply.response = ErrorMessage
    /\ chatRes.reply.events = <<>>

\* C8 as stated: chat called while nothing is indexed returns the 'nothing indexed
\* yet' message with no events and makes no embedding, search or generation call.
C8_NothingIndexedMessage ==
    (chatRes.op = "chat" /\ chatRes.indexedBefore = {}) =>
        /\ chatRes.reply.response = NothingIndexedMessage
        /\ chatRes.reply.events = <<>>
        /\ chatRes.reply.embedCalls = 0
        /\ chatRes.reply.searchCalls = 0
        /\ chatRes.reply.genCalls = 0

\* C8: chat called while nothing is indexed returns no events and makes no
\* embedding, search or generation call; its message is the 'nothing indexed yet'
\* message when an API key is configured and the 'not configured' message otherwise.
C8_NothingIndexedNoRetrieval ==
    (chatRes.op = "chat" /\ chatRes.indexedBefore = {}) =>
        /\ chatRes.reply.response =
              (IF hasApiKey THEN NothingIndexedMessage ELSE NotConfiguredMessage)
        /\ chatRes.reply.events = <<>>
        /\ chatRes.reply.embedCalls = 0
        /\ chatRes.reply.searchCalls = 0
        /\ chatRes.reply.genCalls = 0

C8_Witness ==
    /\ chatRes.op = "chat"
    /\ chatRes.indexedBefore = {}
    /\ hasApiKey /\ isInitialized
    /\ chatRes.reply.response = NothingIndexedMessage

(***************************************************************************)
(* SpecServer: server.js.  initializeApp, the cron tick and POST           *)
(* /api/refresh call scrapeAllSources; an invocation that passes the test  *)
(* of isScrapingInProgress is a run, kept in `runs` with the await it is   *)
(* at.  clear() and addEvents() are called without await: in database mode *)
(* their database call is left in dbPending and completes in a later step. *)
(* At most MaxRuns runs start.                                             *)
(***************************************************************************)
MaxRuns == 2

ILoveQatar == <<"I","L","o","v","e","Q","a","t","a","r">>
QatarMuseums == <<"Q","a","t","a","r"," ","M","u","s","e","u","m","s">>
VisitQatar == <<"V","i","s","i","t"," ","Q","a","t","a","r">>

\* what the three scrapers resolve with
SampleScrapes ==
    { << <<>>, <<>>, <<>> >>,
      << <<>>, <<Titled(T_ArtFair, May5)>>, <<>> >> }

\* classifyBatch(events): each event with the category of the classifier, or as it
\* was when the classification of the event failed
classifyBatch(events, category) ==
    [i \in DOMAIN events |->
        IF category = None THEN events[i] ELSE [events[i] EXCEPT !.category = category]]

\* the ids of the events the catalog holds, in memory or in the collection
CatalogIds ==
    {inMemoryEvents[i].id : i \in DOMAIN inMemoryEvents}
        \cup {dbEvents[i].eventId : i \in DOMAIN dbEvents}

ActiveRuns == {i \in DOMAIN runs : runs[i].pc \notin {"done", "failed"}}

\* the start of a run: the flag, then clear() without await; `before` keeps the ids
\* the catalog held when the run started
StartRun(trigger, useDb) ==
    /\ Len(runs) < MaxRuns
    /\ isScrapingInProgress' = TRUE
    /\ scrapingError' = None
    /\ IF useDb
       THEN /\ dbPending' = Append(dbPending, [op |-> "clear"])
            /\ UNCHANGED <<inMemoryEvents, lastUpdate>>
       ELSE /\ inMemoryEvents' = clear(Agg, TRUE).inMemoryEvents
            /\ lastUpdate' = clear(Agg, TRUE).lastUpdate
            /\ UNCHANGED dbPending
    /\ runs' = Append(runs, [pc |-> "scraping", trigger |-> trigger, feeds |-> <<>>,
                              before |-> CatalogIds])

\* scrapeAllSources without the test of the flag
scrapeAllSourcesUnguarded(trigger, useDb) == StartRun(trigger, useDb)

\* scrapeAllSources up to its first await
scrapeAllSources(trigger, useDb) ==
    IF isScrapingInProgress
    THEN UNCHANGED <<isScrapingInProgress, scrapingError, dbPending, inMemoryEvents,
                     lastUpdate, runs>>
    ELSE StartRun(trigger, useDb)

InitServer ==
    /\ CatIdle /\ SrvIdle
    /\ vectorStore = NewVectorStore
    /\ twinStore = NewVectorStore
    /\ storeRes = [op |-> "new", dbFailures |-> 0]
    /\ hasApiKey = TRUE
    /\ isInitialized = FALSE
    /\ embedLog = <<>>
    /\ genCalls = 0
    /\ chatRes = [op |-> "none"]
    /\ FnIdle

\* initializeApp: connect, eventAggregator.initialize, chatbot.initialize, then the
\* first scrapeAllSources
SrvInitializeApp ==
    \E isConnected \in BOOLEAN :
      \E dbOk \in DbOutcomes(isConnected) :
        /\ ~isInitialized
        /\ useDatabase' = isConnected
        /\ vectorStore' = initializeStore(vectorStore, isConnected, dbOk)
        /\ isInitialized' = TRUE
        /\ storeRes' = [storeRes EXCEPT !.dbFailures = Failures(dbOk)]
        /\ scrapeAllSources("startup", isConnected)
        /\ httpRes' = [op |-> "startup", inProgress |-> isScrapingInProgress]
        /\ UNCHANGED <<dbEvents, now, queryRes, lastScrapingTime, twinStore, hasApiKey,
                       embedLog, genCalls, chatRes, fnVars>>

\* cron.schedule('0 */6 * * *')
SrvCron ==
    /\ scrapeAllSources("cron", useDatabase)
    /\ httpRes' = [op |-> "cron", inProgress |-> isScrapingInProgress]
    /\ UNCHANGED <<dbEvents, useDatabase, now, queryRes, lastScrapingTime, botVars, fnVars>>

\* POST /api/refresh
SrvRefresh ==
    /\ IF isScrapingInProgress
       THEN /\ httpRes' = [op |-> "refresh", status |-> 429, inProgress |-> TRUE]
            /\ UNCHANGED <<isScrapingInProgress, scrapingError, dbPending,
                           inMemoryEvents, lastUpdate, runs>>
       ELSE /\ scrapeAllSources("refresh", useDatabase)
            /\ httpRes' = [op |-> "refresh", status |-> 200, inProgress |-> FALSE]
    /\ UNCHANGED <<dbEvents, useDatabase, now, queryRes, lastScrapingTime, botVars, fnVars>>

\* RunScraped without the finally block: a rejection records the error and leaves
\* the flag set
RunScrapedNoFinally ==
    \E i \in DOMAIN runs :
        /\ runs[i].pc = "scraping"
        /\ \/ \E feeds \in SampleScrapes :
                /\ runs' = [runs EXCEPT ![i].pc = "classifying", ![i].feeds = feeds]
                /\ UNCHANGED scrapingError
           \/ /\ runs' = [runs EXCEPT ![i].pc = "failed"]
              /\ scrapingError' = Some("error.message")
        /\ UNCHANGED <<isScrapingInProgress, catVars, botVars, lastScrapingTime,
                       httpRes, fnVars>>

\* the three scrapers resolve, and classifyBatch is called on what each found; or
\* one rejects: catch, then finally
RunScraped ==
    \E i \in DOMAIN runs :
        /\ runs[i].pc = "scraping"
        /\ \/ \E feeds \in SampleScrapes :
                /\ runs' = [runs EXCEPT ![i].pc = "classifying", ![i].feeds = feeds]
                /\ UNCHANGED <<isScrapingInProgress, scrapingError>>
           \/ /\ runs' = [runs EXCEPT ![i].pc = "failed"]
              /\ scrapingError' = Some("error.message")
              /\ isScrapingInProgress' = FALSE
        /\ UNCHANGED <<catVars, botVars, lastScrapingTime, httpRes, fnVars>>

\* the effect of addEvents called without await: in memory-only mode the whole
\* call; in database mode a pending bulkWrite, or only lastUpdate for an empty batch
addEventsNoAwait(state, events, source, nowTs) ==
    IF ~state.agg.useDatabase
    THEN [state EXCEPT !.agg = addEvents(@, events, source, nowTs, TRUE)]
    ELSE IF events = <<>>
    THEN [state EXCEPT !.agg.lastUpdate = nowTs]
    ELSE [state EXCEPT !.pending =
            Append(@, [op |-> "addEvents", events |-> events, source |-> source])]

\* the classifications resolve: three addEvents without await, lastScrapingTime,
\* indexEvents given the promise of getAllEvents (it indexes nothing), then finally
RunClassified ==
    \E i \in DOMAIN runs, category \in {None, Some(Food)} :
        /\ runs[i].pc = "classifying"
        /\ LET feeds == runs[i].feeds
               s0 == [agg |-> Agg, pending |-> dbPending]
               s1 == addEventsNoAwait(s0, classifyBatch(feeds[1], category), ILoveQatar, now)
               s2 == addEventsNoAwait(s1, classifyBatch(feeds[2], category), QatarMuseums, now)
               s3 == addEventsNoAwait(s2, classifyBatch(feeds[3], category), VisitQatar, now)
           IN  /\ inMemoryEvents' = s3.agg.inMemoryEvents
               /\ lastUpdate' = s3.agg.lastUpdate
               /\ dbPending' = s3.pending
        /\ lastScrapingTime' = now
        /\ isScrapingInProgress' = FALSE
        /\ runs' = [runs EXCEPT ![i].pc = "done"]
        /\ UNCHANGED <<dbEvents, useDatabase, now, queryRes, botVars, scrapingError,
                       httpRes, fnVars>>

\* a database call left behind by clear() or addEvents() completes, and the rest of
\* the method runs
DbComplete ==
    \E i \in DOMAIN dbPending :
      \E dbOk \in DbOutcomes(TRUE) :
        LET call == dbPending[i]
            agg == IF call.op = "clear" THEN clear(Agg, dbOk)
                   ELSE addEvents(Agg, call.events, call.source, now, dbOk)
        IN  /\ inMemoryEvents' = agg.inMemoryEvents
            /\ lastUpdate' = agg.lastUpdate
            /\ dbEvents' = agg.dbEvents
            /\ dbPending' = SubSeq(dbPending, 1, i - 1)
                                \o SubSeq(dbPending, i + 1, Len(dbPending))
            /\ storeRes' = [storeRes EXCEPT !.dbFailures = Failures(dbOk)]
            /\ UNCHANGED <<useDatabase, now, queryRes, vectorStore, twinStore, hasApiKey,
                           isInitialized, embedLog, genCalls, chatRes, srvVars, fnVars>>

NextServer ==
    \/ SrvInitializeApp
    \/ SrvCron
    \/ SrvRefresh
    \/ RunScraped
    \/ RunClassified
    \/ DbComplete

SpecServer == InitServer /\ [][NextServer]_vars

\* a trigger that found a run in flight started nothing and changed neither the
\* catalog nor the flag, and POST /api/refresh answered 429
RejectedTriggerChangesNothing ==
    (isScrapingInProgress /\ httpRes' # httpRes) =>
        /\ UNCHANGED <<runs, isScrapingInProgress, inMemoryEvents, lastUpdate, dbEvents,
                       dbPending>>
        /\ httpRes'.op = "refresh" => httpRes'.status = 429

\* C4: at most one run of scrapeAllSources is active at any time: a trigger
\* (startup, cron tick, POST /api/refresh) that arrives while a run is in flight
\* starts no second run and changes neither the catalog nor the in-progress flag,
\* and POST /api/refresh answers it with a rejection.
C4_SingleRun ==
    /\ [](Cardinality(ActiveRuns) <= 1 /\ (isScrapingInProgress <=> ActiveRuns # {}))
    /\ [][RejectedTriggerChangesNothing]_vars

\* POST /api/refresh was rejected while a run that the cron tick started is in flight
C4_Witness ==
    /\ httpRes.op = "refresh" /\ httpRes.status = 429
    /\ isScrapingInProgress
    /\ \E i \in DOMAIN runs : runs[i].pc = "classifying" /\ runs[i].trigger = "cron"

(***************************************************************************)
(* SpecRefresh: a VectorStore whose refreshCache is seen at its await.     *)
(* initialize and addVectors call refreshCache; the read of the Embedding  *)
(* collection it awaits is left in dbPending with the cache it found, and  *)
(* completes in a later step.  search has no await and runs in one step.   *)
(* At most MaxInFlight reads are in flight.                                *)
(***************************************************************************)
MaxInFlight == 2

\* the vectors of a cache; a null cache has none
CacheVectors(cache) == IF IsSome(cache) THEN Val(cache) ELSE <<>>

\* addVectors up to its call of refreshCache
addVectorsWrite(vs, events, embeddings, dbOk) ==
    IF vs.useDatabase /\ dbOk
    THEN [vs EXCEPT !.dbEmbeddings = bulkUpsert(@, events, embeddings)]
    ELSE [vs EXCEPT !.inMemoryVectors = setAllInMemory(@, events, embeddings)]

\* refreshCache up to its await: the read is issued in database mode only
refreshIssued(vs, pending) ==
    IF vs.useDatabase
    THEN Append(pending, [op |-> "getAllEmbeddings", pre |-> vs.vectorCache])
    ELSE pending

\* what a call leaves in storeRes: whether a refresh has completed, and the cache
\* the last completed refresh found
RefreshRes(op, dbFailures, refreshed, lastPre) ==
    [op |-> op, dbFailures |-> dbFailures, refreshed |-> refreshed, lastPre |-> lastPre]

InitRefresh ==
    /\ inMemoryEvents = <<>>
    /\ lastUpdate = NoTime
    /\ useDatabase = FALSE
    /\ dbEvents = <<>>
    /\ dbPending = <<>>
    /\ now \in NowSamples
    /\ queryRes = [op |-> "none"]
    /\ SrvIdle
    /\ vectorStore = NewVectorStore
    /\ twinStore = NewVectorStore
    /\ storeRes = RefreshRes("new", 0, FALSE, None)
    /\ hasApiKey = FALSE
    /\ isInitialized = FALSE
    /\ embedLog = <<>>
    /\ genCalls = 0
    /\ chatRes = [op |-> "none"]
    /\ FnIdle

RefreshUnchanged ==
    UNCHANGED <<inMemoryEvents, lastUpdate, useDatabase, dbEvents, now, queryRes,
                twinStore, hasApiKey, isInitialized, embedLog, genCalls, chatRes,
                srvVars, fnVars>>

\* initialize(database) up to the await of refreshCache
RfInitialize ==
    \E isConnected \in BOOLEAN :
        /\ storeRes.op = "new"
        /\ vectorStore' = [vectorStore EXCEPT !.useDatabase = isConnected]
        /\ dbPending' = refreshIssued(vectorStore', dbPending)
        /\ storeRes' = RefreshRes("initialize", storeRes.dbFailures, storeRes.refreshed,
                                   storeRes.lastPre)
        /\ RefreshUnchanged

RfAddVector ==
    \E event \in StoreEvents(now), dbOk \in DbOutcomes(vectorStore.useDatabase) :
        /\ storeRes.op # "new"
        /\ vectorStore' = addVector(vectorStore, event.id, SampleEmbedding(event, now),
                                    IndexMetadata(event), dbOk)
        /\ storeRes' = RefreshRes("addVector", Failures(dbOk), storeRes.refreshed,
                                   storeRes.lastPre)
        /\ UNCHANGED dbPending
        /\ RefreshUnchanged

\* addVectors up to the await of refreshCache
RfAddVectors ==
    \E events \in SampleEventLists(now), dbOk \in DbOutcomes(vectorStore.useDatabase) :
      LET batch == IndexBatch(events, [i \in DOMAIN events |->
                                          SampleEmbedding(events[i], now)])
      IN
        /\ storeRes.op # "new"
        /\ Len(dbPending) < MaxInFlight
        /\ vectorStore' = addVectorsWrite(vectorStore, batch.events, batch.embeddings, dbOk)
        /\ dbPending' = IF dbOk THEN refreshIssued(vectorStore, dbPending) ELSE dbPending
        /\ storeRes' = RefreshRes("addVectors", Failures(dbOk), storeRes.refreshed,
                                   storeRes.lastPre)
        /\ RefreshUnchanged

\* the read of a refreshCache completes: the new cache is swapped in, or the cache
\* is set to null when the read failed
RfRefreshDone ==
    \E i \in DOMAIN dbPending :
      \E dbOk \in DbOutcomes(TRUE) :
        /\ vectorStore' = refreshCache(vectorStore, dbOk)
        /\ dbPending' = SubSeq(dbPending, 1, i - 1)
                            \o SubSeq(dbPending, i + 1, Len(dbPending))
        /\ storeRes' = RefreshRes("refreshCache", Failures(dbOk), TRUE, dbPending[i].pre)
        /\ RefreshUnchanged

\* search: `ranked` is the map whose vectors it ranks; `caches` are the cache as it
\* is now (the one the last refresh left), the cache that refresh found and the
\* caches found by the refreshes in flight
RfSearch ==
    \E queryEmbedding \in SampleVectors :
        /\ storeRes.op # "new"
        /\ storeRes' =
              [ op |-> "search", dbFailures |-> storeRes.dbFailures,
                refreshed |-> storeRes.refreshed, lastPre |-> storeRes.lastPre,
                inFlight |-> Len(dbPending),
                ranked |-> vectorSource(vectorStore),
                results |-> search(vectorStore, queryEmbedding, TopK, <<>>),
                caches |-> {vectorStore.vectorCache, storeRes.lastPre}
                              \cup {dbPending[i].pre : i \in DOMAIN dbPending} ]
        /\ UNCHANGED <<vectorStore, dbPending>>
        /\ RefreshUnchanged

NextRefresh ==
    \/ RfInitialize
    \/ RfAddVector
    \/ RfAddVectors
    \/ RfRefreshDone
    \/ RfSearch

SpecRefresh == InitRefresh /\ [][NextRefresh]_vars

\* C11: a search that interleaves with a cache refresh, successful or failed, ranks
\* over the complete cache from before the refresh or the complete cache from after
\* it, never over a partially written cache or a third set of vectors.
C11_SearchSeesPreOrPostCache ==
    (storeRes.op = "search" /\ vectorStore.useDatabase
        /\ (storeRes.refreshed \/ storeRes.inFlight > 0)) =>
            storeRes.ranked \in {CacheVectors(cache) : cache \in storeRes.caches}

\* the same for the searches made while the cache is not null
C11_SearchSeesTheLoadedCache ==
    (storeRes.op = "search" /\ vectorStore.useDatabase
        /\ IsSome(vectorStore.vectorCache)) =>
            storeRes.ranked = Val(vectorStore.vectorCache)

(***************************************************************************)
(* SpecCycle: the server of SpecServer started on a database whose         *)
(* Embedding collection holds what an earlier process stored: the          *)
(* embedding of an event that no scraper finds any more.                   *)
(***************************************************************************)
PersistedEmbeddings(nowTs) ==
    << [eventId |-> StoreEventB(nowTs).id, embedding |-> <<1, 1>>] >>

InitCycle ==
    /\ CatIdle /\ SrvIdle
    /\ vectorStore = [NewVectorStore EXCEPT !.dbEmbeddings = PersistedEmbeddings(now)]
    /\ twinStore = NewVectorStore
    /\ storeRes = [op |-> "new", dbFailures |-> 0]
    /\ hasApiKey = TRUE
    /\ isInitialized = FALSE
    /\ embedLog = <<>>
    /\ genCalls = 0
    /\ chatRes = [op |-> "none"]
    /\ FnIdle

SpecCycle == InitCycle /\ [][NextServer]_vars

\* the ids a scraper can bring
ScrapedIds ==
    UNION { UNION { {normalizeEvent(feeds[k][i], source, now).id : i \in DOMAIN feeds[k]} :
                      k \in DOMAIN feeds } :
              feeds \in SampleScrapes, source \in {ILoveQatar, QatarMuseums, VisitQatar} }

\* the ids search can return
SearchableIds ==
    {vectorSource(vectorStore)[i].eventId : i \in DOMAIN vectorSource(vectorStore)}

CompletedRuns == {i \in DOMAIN runs : runs[i].pc = "done"}

\* C12: the store holds no embedding of an event without an Event in the catalog
\* for longer than one ingestion cycle: once two runs have completed, an embedding
\* of an event that was in the catalog after neither of them is deleted, or search
\* does not return it.
C12_StaleEmbeddingsGone ==
    (/\ Cardinality(CompletedRuns) >= 2
     /\ ~isScrapingInProgress
     /\ dbPending = <<>>)
        => \A id \in SearchableIds : id \in CatalogIds \/ id \in ScrapedIds

\* the ids of the events the scrapers of run i brought
RunIds(i) ==
    LET feeds == runs[i].feeds
        sources == <<ILoveQatar, QatarMuseums, VisitQatar>>
    IN  UNION { {normalizeEvent(feeds[k][j], sources[k], now).id : j \in DOMAIN feeds[k]} :
                  k \in DOMAIN feeds }

\* the server is at rest: no run in flight and no database call pending
AtRest == ~isScrapingInProgress /\ dbPending = <<>>

\* C13: a pipeline run is atomic with respect to the catalog: once the server is at
\* rest after its last run, a run that failed has left the events the catalog held
\* before it, and a run that completed has left every event of every batch in the
\* catalog.
C13_RunIsAtomic ==
    (AtRest /\ runs # <<>>) =>
        LET last == Len(runs)
        IN  /\ runs[last].pc = "failed" => CatalogIds = runs[last].before
            /\ runs[last].pc = "done" => RunIds(last) \subseteq CatalogIds

\* the same for the runs that completed in memory-only mode
C13_CompletedRunMergedInMemory ==
    (AtRest /\ runs # <<>> /\ ~useDatabase /\ runs[Len(runs)].pc = "done")
        => RunIds(Len(runs)) \subseteq CatalogIds

\* C14: event ids are unique within the catalog: after any sequence of addEvents
\* calls (the same title on different days, the same native id twice), no two
\* events returned by getAllEvents share an id.
C14_IdsUnique ==
    queryRes.op = "all" =>
        \A i, j \in DOMAIN queryRes.events :
            i # j => queryRes.events[i].id # queryRes.events[j].id

\* the same for the answers that came from the database, where eventId is the key
\* of the upsert
C14_IdsUniqueFromDb ==
    (queryRes.op = "all" /\ queryRes.fromDb) =>
        \A i, j \in DOMAIN queryRes.events :
            i # j => queryRes.events[i].id # queryRes.events[j].id

\* C15: ingestion is additive until clear(): getStats reports as total the number
\* of events ingested since the last clear and as unique the length of
\* getAllEvents, with unique <= total; right after clear() the total is 0,
\* getAllEvents is empty and lastUpdate is unset.
C15_AdditiveUntilClear ==
    /\ queryRes.op = "stats" =>
          /\ queryRes.stats.totalEvents = queryRes.ingested
          /\ queryRes.stats.uniqueEvents = Len(getAllEvents(Agg, TRUE))
          /\ queryRes.stats.uniqueEvents <= queryRes.stats.totalEvents
    /\ queryRes.op = "clear" =>
          /\ getStats(Agg, TRUE, TRUE).totalEvents = 0
          /\ getAllEvents(Agg, TRUE) = <<>>
          /\ lastUpdate = NoTime

\* the same in memory-only mode
C15_AdditiveUntilClearInMemory ==
    ~useDatabase => C15_AdditiveUntilClear

\* C17: normalization never surfaces a parse error: for a raw event with any subset
\* of its optional fields absent (all of them at once included) or with an
\* unparseable date, ingest does not raise.
C17_IngestNeverRaises ==
    queryRes.op = "addEvents" => ~queryRes.raised

(***************************************************************************)
(* SpecResolve: parseDate applied to one date string under one clock.      *)
(* The clock stands on 20 January, 1 May or 20 December 2025; the date     *)
(* strings are absent, rejected by the parser, or name one of ResolveDays  *)
(* with or without a year.                                                 *)
(***************************************************************************)
Jan3 == DateStr("md", 0, 2, 0)
Dec20 == toDateString(MakeDate(2025, 353, 0))
ResolveNows == {MakeDate(2025, doy, tod) : doy \in {19, 120, 353}, tod \in 0..(TicksPerDay - 1)}
ResolveDays == {2, 89, 90, 124, 323, 358}
ResolveYears == {1999, 2023, 2024, 2025, 2026}
ResolveStrings ==
    {None, Some(DateStr("junk", 0, 0, 0))}
      \cup {Some(DateStr("md", 0, doy, tod)) :
               doy \in ResolveDays, tod \in 0..(TicksPerDay - 1)}
      \cup {Some(DateStr("mdy", year, doy, 0)) : year \in ResolveYears, doy \in ResolveDays}

InitResolve ==
    /\ inMemoryEvents = <<>>
    /\ lastUpdate = NoTime
    /\ useDatabase = FALSE
    /\ dbEvents = <<>>
    /\ dbPending = <<>>
    /\ queryRes = [op |-> "none"]
    /\ BotIdle /\ SrvIdle
    /\ dedupeIn = <<>> /\ dedupeOut = None
    /\ now \in ResolveNows
    /\ callArgs \in {<<dateString>> : dateString \in ResolveStrings}
    /\ callRes = None

ResolveDate ==
    /\ callRes = None
    /\ callRes' = Some(parseDate(callArgs[1], now))
    /\ UNCHANGED <<callArgs, dedupeIn, dedupeOut, catVars, botVars, srvVars>>

SpecResolve == InitResolve /\ [][ResolveDate]_vars

\* the date string of the call names no year
LacksYear == ~IsSome(callArgs[1]) \/ Val(callArgs[1]).kind \in {"md", "junk"}

\* C18: for every raw date string that lacks a year, parseDate returns a date whose
\* year is the current year or the current year + 1, never the parser's default
\* year.
C18_YearIsCurrentOrNext ==
    (IsSome(callRes) /\ LacksYear) =>
        /\ getFullYear(Val(callRes)) \in {getFullYear(now), getFullYear(now) + 1}
        /\ getFullYear(Val(callRes)) # DefaultYear

\* a month and a day, resolved into the next year
C18_Witness ==
    /\ IsSome(callRes) /\ IsSome(callArgs[1])
    /\ Val(callArgs[1]).kind = "md"
    /\ getFullYear(Val(callRes)) = getFullYear(now) + 1

\* C19: parseDate applies the rollover rule: when the date obtained after year
\* repair is more than 30 days before the clock, the result is that date with its
\* year incremented by exactly one, otherwise the date is returned unchanged;
\* 'Jan 3' resolved on December 20 yields January 3 of the following year.
C19_Rollover ==
    (IsSome(callRes) /\ IsSome(callArgs[1])
        /\ yearRepaired(callArgs[1], now) # InvalidDate) =>
        LET date == yearRepaired(callArgs[1], now)
            result == Val(callRes)
        IN  /\ result % TicksPerYear = date % TicksPerYear
            /\ IF now - date > ThirtyDays * TicksPerDay
               THEN getFullYear(result) = getFullYear(date) + 1
               ELSE result = date
            /\ (callArgs[1] = Some(Jan3) /\ toDateString(now) = Dec20)
                  => result = MakeDate(2026, Jan3.doy, 0)

\* 'Jan 3' resolved on December 20
C19_Witness ==
    /\ callArgs = <<Some(Jan3)>>
    /\ toDateString(now) = Dec20
    /\ callRes = Some(MakeDate(2026, Jan3.doy, 0))

(***************************************************************************)
(* cosineSimilarity in floating point.  Math.sqrt, * and / each round      *)
(* their exact result to the nearest number with a significand of          *)
(* MantissaBits bits, ties to even (a JavaScript number has 53).  A        *)
(* positive number is [m, e], standing for m * 2^e with                    *)
(* 2^(MantissaBits-1) <= m < 2^MantissaBits.  The sums of products of the  *)
(* loop are sums of small integers and are exact.                          *)
(***************************************************************************)
MantissaBits == 12

\* q * 2^e with q of MantissaBits + 1 bits, and sticky telling that more follows,
\* rounded
FlRound(q, sticky, e) ==
    LET half == q \div 2
        up == q % 2 = 1 /\ (sticky \/ half % 2 = 1)
        m == IF up THEN half + 1 ELSE half
    IN  IF m = 2^MantissaBits
        THEN [m |-> 2^(MantissaBits - 1), e |-> e + 2]
        ELSE [m |-> m, e |-> e + 1]

\* Math.sqrt(n) for an integer n > 0
FlSqrt(n) ==
    LET k == CHOOSE k \in 0..MantissaBits :
                 /\ 2^(2 * MantissaBits) <= n * 4^k
                 /\ n * 4^k < 2^(2 * MantissaBits + 2)
        x == n * 4^k
        root == CHOOSE r \in 2^MantissaBits..(2^(MantissaBits + 1) - 1) :
                    r * r <= x /\ x < (r + 1) * (r + 1)
    IN  FlRound(root, root * root # x, -k)

\* a * b
FlMul(a, b) ==
    LET product == a.m * b.m
        shift == IF product >= 2^(2 * MantissaBits - 1)
                 THEN MantissaBits - 1 ELSE MantissaBits - 2
    IN  FlRound(product \div 2^shift, product % 2^shift # 0, a.e + b.e + shift)

\* n / b for an integer n > 0
FlDiv(n, b) ==
    LET t == CHOOSE t \in 0..(2 * MantissaBits) :
                 /\ 2^MantissaBits <= (n * 2^t) \div b.m
                 /\ (n * 2^t) \div b.m < 2^(MantissaBits + 1)
    IN  FlRound((n * 2^t) \div b.m, (n * 2^t) % b.m # 0, -t - b.e)

FlZero == [sgn |-> 0, m |-> 0, e |-> 0]
FlOne == [sgn |-> 1, m |-> 2^(MantissaBits - 1), e |-> 1 - MantissaBits]

\* cosineSimilarity(vecA, vecB) for vectors of one length
cosineSimilarityFl(vecA, vecB) ==
    LET dotProduct == Dot(vecA, vecB)
        normA == Dot(vecA, vecA)
        normB == Dot(vecB, vecB)
    IN  IF normA = 0 \/ normB = 0 THEN FlZero
        ELSE IF dotProduct = 0 THEN FlZero
        ELSE LET quotient == FlDiv(dotProduct * Sign(dotProduct),
                                   FlMul(FlSqrt(normA), FlSqrt(normB)))
             IN  [sgn |-> Sign(dotProduct), m |-> quotient.m, e |-> quotient.e]

(***************************************************************************)
(* SpecCosine: cosineSimilarity applied to one pair of CosineVectors.      *)
(***************************************************************************)
CosineVectors ==
    {<<x>> : x \in -1..2} \cup {<<x, y>> : x \in -1..2, y \in -1..2}
        \cup {<<1, 1, 1>>, <<0, 0, 0>>}

InitCosine ==
    /\ CatIdle /\ BotIdle /\ SrvIdle
    /\ dedupeIn = <<>> /\ dedupeOut = None
    /\ callArgs \in CosineVectors \X CosineVectors
    /\ callRes = None

CosineCall ==
    /\ callRes = None
    /\ callRes' = Some(IF cosineRaises(callArgs[1], callArgs[2])
                       THEN [raised |-> TRUE]
                       ELSE [raised |-> FALSE,
                             similarity |-> cosineSimilarityFl(callArgs[1], callArgs[2])])
    /\ UNCHANGED <<callArgs, dedupeIn, dedupeOut, catVars, botVars, srvVars>>

SpecCosine == InitCosine /\ [][CosineCall]_vars

IsZeroVector(vec) == \A i \in DOMAIN vec : vec[i] = 0

\* C20: cosineSimilarity(v, v) equals 1 for every non-zero vector v, and
\* cosineSimilarity returns 0 whenever either argument is a zero vector.
C20_SelfSimilarityIsOne ==
    (IsSome(callRes) /\ ~Val(callRes).raised) =>
        /\ (callArgs[1] = callArgs[2] /\ ~IsZeroVector(callArgs[1]))
               => Val(callRes).similarity = FlOne
        /\ (IsZeroVector(callArgs[1]) \/ IsZeroVector(callArgs[2]))
               => Val(callRes).similarity = FlZero

\* the part about zero vectors
C20_ZeroVectorGivesZero ==
    (IsSome(callRes) /\ ~Val(callRes).raised
        /\ (IsZeroVector(callArgs[1]) \/ IsZeroVector(callArgs[2])))
        => Val(callRes).similarity = FlZero

\* C22: after a pipeline run completes successfully with the embedding provider
\* configured and the chatbot initialized, every event returned by getAllEvents has
\* an embedding in the VectorStore.
C22_CompletedRunIndexed ==
    (/\ runs # <<>> /\ runs[Len(runs)].pc = "done"
     /\ hasApiKey /\ isInitialized
     /\ AtRest)
        => CatalogIds \subseteq indexedIds(vectorStore)

\* C23: getAllEvents, filterByDateRange and getEventsByCategory return their events
\* in ascending order of start date, in both operating modes and also when a
\* database read fails and the in-memory fallback is used.
C23_DateAscending ==
    queryRes.op \in {"all", "range", "category"} =>
        \A i, j \in DOMAIN queryRes.events :
            i < j => queryRes.events[i].date <= queryRes.events[j].date

\* the in-memory fallback of database mode answering with two events that were
\* ingested in descending order of date
C23_Witness ==
    /\ queryRes.op \in {"all", "range", "category"}
    /\ useDatabase /\ ~queryRes.fromDb
    /\ Len(queryRes.events) = 2
    /\ Len(inMemoryEvents) = 2
    /\ inMemoryEvents[1].date > inMemoryEvents[2].date
    /\ queryRes.events[1] = inMemoryEvents[2]

\* the token-overlap score of a shorter and a longer title exceeds 0.8: the summed
\* lengths of the shorter title's words of length > 2 that occur in the longer
\* title, divided by the longer title's length
OverlapExceeds(shorter, longer) ==
    LET words == splitSpace(shorter)
        hits == {i \in DOMAIN words :
                    Len(words[i]) > 2 /\ words[i] \in Range(splitSpace(longer))}
        Sum[n \in 0..Len(words)] ==
            IF n = 0 THEN 0 ELSE Sum[n - 1] + (IF n \in hits THEN Len(words[n]) ELSE 0)
    IN  Len(longer) > 0 /\ 5 * Sum[Len(words)] > 4 * Len(longer)

\* the ways to tell the shorter from the longer of two titles: one, or two when the
\* titles are of one length
Readings(t1, t2) ==
    (IF Len(t1) <= Len(t2) THEN {<<t1, t2>>} ELSE {})
        \cup (IF Len(t2) <= Len(t1) THEN {<<t2, t1>>} ELSE {})

\* the rule of the claim for a candidate and a kept event, the score taken under
\* some reading (all = FALSE) or under every reading (all = TRUE)
Collapse(candidate, kept, all) ==
    LET t1 == normalizeTitle(candidate.title)
        t2 == normalizeTitle(kept.title)
    IN  /\ toDateString(candidate.date) = toDateString(kept.date)
        /\ \/ t1 = t2
           \/ includes(t1, t2) \/ includes(t2, t1)
           \/ IF all THEN \A r \in Readings(t1, t2) : OverlapExceeds(r[1], r[2])
                     ELSE \E r \in Readings(t1, t2) : OverlapExceeds(r[1], r[2])

DedupeEvent(title, date) == normalizeEvent(Titled(title, date), SourceX, now)

\* C24: removeDuplicates discards a candidate exactly when some previously kept
\* event on the same calendar day has an identical normalized title, or one of the
\* two normalized titles is a substring of the other, or the token-overlap score
\* exceeds 0.8.  Events on different calendar days are never collapsed; 'Doha Food
\* Festival 2025' and 'Doha Food Festival' on the same day collapse; 'Jazz Night'
\* and 'Yoga Class' on the same day are both kept.
C24_DiscardRule ==
    IsSome(dedupeOut) =>
        LET kept == Range(Val(dedupeOut).idx)
        IN  /\ \A j \in DOMAIN dedupeIn :
                  LET earlier == {k \in kept : k < j}
                  IN  /\ j \notin kept =>
                          \E k \in earlier : Collapse(dedupeIn[j], dedupeIn[k], FALSE)
                      /\ (\E k \in earlier : Collapse(dedupeIn[j], dedupeIn[k], TRUE))
                          => j \notin kept
            /\ \A i, j \in DOMAIN dedupeIn :
                  (i < j /\ i \in kept
                     /\ \A k \in kept : k < j =>
                           toDateString(dedupeIn[k].date) # toDateString(dedupeIn[j].date))
                      => j \in kept
            /\ dedupeIn = <<DedupeEvent(T_DohaFood2025, May5), DedupeEvent(T_DohaFood, May5)>>
                  => kept = {1}
            /\ dedupeIn = <<DedupeEvent(T_JazzNight, May5), DedupeEvent(T_YogaClass, May5)>>
                  => kept = {1, 2}

\* a candidate discarded by the score alone: 'Festival Food Doha' after 'Doha Food
\* Festival' on the same day
C24_Witness ==
    /\ IsSome(dedupeOut)
    /\ dedupeIn = <<DedupeEvent(T_DohaFood, May5), DedupeEvent(T_FestivalFood, May5)>>
    /\ Val(dedupeOut).idx = <<1>>
    /\ ~includes(normalizeTitle(T_DohaFood), normalizeTitle(T_FestivalFood))
    /\ ~includes(normalizeTitle(T_FestivalFood), normalizeTitle(T_DohaFood))

\* C25: within one pipeline run the catalog mutations are ordered: the clear has
\* taken effect before any of the run's batches is merged, and every batch merge
\* has taken effect before the run is marked finished; whenever the in-progress
\* flag is false no clear or ingest of an earlier run is still in flight.
C25_NothingInFlightWhenIdle ==
    /\ ~isScrapingInProgress => dbPending = <<>>
    /\ \A i, j \in DOMAIN dbPending :
          ~(dbPending[i].op = "clear" /\ dbPending[j].op = "addEvents")

\* the same in memory-only mode
C25_NothingInFlightInMemory ==
    ~useDatabase => C25_NothingInFlightWhenIdle

(***************************************************************************)
(* SpecServerFair: the server when every collaborator call of a run        *)
(* returns or raises: the continuation of a run after its scrapers and     *)
(* after its classifications is eventually taken.  The database calls      *)
(* succeed.                                                                *)
(***************************************************************************)
\* the database has used up the failures it is allowed: its calls succeed
InitServerFair ==
    /\ CatIdle /\ SrvIdle
    /\ vectorStore = NewVectorStore
    /\ twinStore = NewVectorStore
    /\ storeRes = [op |-> "new", dbFailures |-> MaxDbFailures]
    /\ hasApiKey = TRUE
    /\ isInitialized = FALSE
    /\ embedLog = <<>>
    /\ genCalls = 0
    /\ chatRes = [op |-> "none"]
    /\ FnIdle

SpecServerFair ==
    /\ InitServerFair /\ [][NextServer]_vars
    /\ WF_vars(RunScraped)
    /\ WF_vars(RunClassified)

\* C26: every pipeline run leaves the in-progress state: once a run has set the
\* in-progress flag, the flag is eventually reset to false whether the run succeeds
\* or a step raises, a failed run records its error message in scrapingError, and a
\* successful run leaves scrapingError unset.
C26_RunLeavesInProgress ==
    /\ isScrapingInProgress ~> ~isScrapingInProgress
    /\ []((~isScrapingInProgress /\ runs # <<>>) =>
             /\ runs[Len(runs)].pc \in {"done", "failed"}
             /\ runs[Len(runs)].pc = "failed" => IsSome(scrapingError)
             /\ runs[Len(runs)].pc = "done" => scrapingError = None)

\* a second run that failed after a first that completed
C26_Witness ==
    /\ Len(runs) = 2
    /\ runs[1].pc = "done" /\ runs[2].pc = "failed"
    /\ ~isScrapingInProgress
    /\ IsSome(scrapingError)

(***************************************************************************)
(* SpecSimilar: areEventsSimilar applied to one pair of events, in both    *)
(* orders, and removeDuplicates applied to the pair in both orders.        *)
(***************************************************************************)
T_ByeByeBirdie == <<"B","y","e"," ","B","y","e"," ","B","i","r","d","i","e">>
T_BirdieByeNow == <<"B","i","r","d","i","e"," ","B","y","e"," ","N","o","w">>

SimilarEvents(nowTs) ==
    DedupeEvents(nowTs)
        \cup {normalizeEvent(Titled(t, May5), SourceX, nowTs) :
                 t \in {T_ByeByeBirdie, T_BirdieByeNow}}

InitSimilar ==
    /\ CatIdle /\ BotIdle /\ SrvIdle
    /\ dedupeIn = <<>> /\ dedupeOut = None
    /\ callArgs \in SimilarEvents(now) \X SimilarEvents(now)
    /\ callRes = None

SimilarCall ==
    /\ callRes = None
    /\ callRes' = Some([ forth |-> areEventsSimilar(callArgs[1], callArgs[2]),
                         back  |-> areEventsSimilar(callArgs[2], callArgs[1]),
                         keptForth |-> Len(removeDuplicates(<<callArgs[1], callArgs[2]>>)),
                         keptBack  |-> Len(removeDuplicates(<<callArgs[2], callArgs[1]>>)) ])
    /\ UNCHANGED <<callArgs, dedupeIn, dedupeOut, catVars, botVars, srvVars>>

SpecSimilar == InitSimilar /\ [][SimilarCall]_vars

\* C27: the similarity predicate is symmetric: areEventsSimilar(a, b) =
\* areEventsSimilar(b, a) for all events a and b, so whether two events collapse
\* does not depend on which of the two was ingested first.
C27_Symmetric ==
    IsSome(callRes) =>
        /\ Val(callRes).forth = Val(callRes).back
        /\ Val(callRes).keptForth = Val(callRes).keptBack

\* the same for titles of different lengths
C27_SymmetricForUnequalLengths ==
    (IsSome(callRes)
        /\ Len(normalizeTitle(callArgs[1].title)) # Len(normalizeTitle(callArgs[2].title)))
        => /\ Val(callRes).forth = Val(callRes).back
           /\ Val(callRes).keptForth = Val(callRes).keptBack

\* C28: on the same catalog state, every event returned by filterByDateRange is
\* also returned by getAllEvents: a range query never surfaces an event that the
\* full-catalog de-duplication dropped as a duplicate.
C28_RangeWithinAll ==
    queryRes.op = "range" =>
        \A i \in DOMAIN queryRes.events :
            queryRes.events[i] \in Range(getAllEvents(Agg, queryRes.fromDb))

\* the same for the answers that came from the database
C28_RangeWithinAllFromDb ==
    (queryRes.op = "range" /\ queryRes.fromDb) =>
        \A i \in DOMAIN queryRes.events :
            queryRes.events[i] \in Range(getAllEvents(Agg, TRUE))

(***************************************************************************)
(* SpecNormalize: normalizeTitle applied to two titles, and to its own     *)
(* result for the first.                                                   *)
(***************************************************************************)
T_ArtInDoha == <<"A","r","t"," ","i","n"," ","D","o","h","a">>
T_ArtDoha == <<"A","r","t"," ","D","o","h","a">>
T_ArtFairSpaced == <<" ","A","r","t"," "," ","F","a","i","r","!"," ">>

NormalizeTitles ==
    {T_ArtFair, T_ArtFairCaps, T_ArtFairSpaced, T_TheArt, T_ArtInDoha, T_ArtDoha,
     T_DohaFood, T_DohaFood2025, T_FestivalFood, T_JazzNight, T_YogaClass}

InitNormalize ==
    /\ CatIdle /\ BotIdle /\ SrvIdle
    /\ dedupeIn = <<>> /\ dedupeOut = None
    /\ callArgs \in NormalizeTitles \X NormalizeTitles
    /\ callRes = None

NormalizeCall ==
    /\ callRes = None
    /\ callRes' = Some([ first  |-> normalizeTitle(callArgs[1]),
                         second |-> normalizeTitle(callArgs[2]),
                         again  |-> normalizeTitle(normalizeTitle(callArgs[1])) ])
    /\ UNCHANGED <<callArgs, dedupeIn, dedupeOut, catVars, botVars, srvVars>>

SpecNormalize == InitNormalize /\ [][NormalizeCall]_vars

\* the words of a title that are left when letter case, punctuation, whitespace and
\* the stop words are set aside
TitleWords(title) ==
    SelectSeq(splitSpace(collapseSpace(stripSpecial(toLowerCase(title)))),
              LAMBDA w : w # <<>> /\ w \notin StopWords)

\* C29: normalizeTitle is canonical: two titles that differ only in letter case,
\* punctuation, repeated or surrounding whitespace and the stop words normalize to
\* the same string, and normalizeTitle is idempotent.
C29_Canonical ==
    IsSome(callRes) =>
        /\ Val(callRes).again = Val(callRes).first
        /\ TitleWords(callArgs[1]) = TitleWords(callArgs[2])
              => Val(callRes).first = Val(callRes).second

\* the same for titles that hold no stop word between two other words
C29_CanonicalWithoutInnerStopWord ==
    (IsSome(callRes) /\ ~includes(Val(callRes).first, <<" ", " ">>)
                     /\ ~includes(Val(callRes).second, <<" ", " ">>)) =>
        /\ Val(callRes).again = Val(callRes).first
        /\ TitleWords(callArgs[1]) = TitleWords(callArgs[2])
              => Val(callRes).first = Val(callRes).second

\* C30: for every input (with or without an explicit year), the timestamp returned
\* by parseDate is never more than 30 days earlier than the clock.
C30_NeverMoreThan30DaysBack ==
    IsSome(callRes) => now - Val(callRes) <= ThirtyDays * TicksPerDay

\* the same for the date strings that name no year
C30_NeverMoreThan30DaysBackWithoutYear ==
    (IsSome(callRes) /\ LacksYear) => now - Val(callRes) <= ThirtyDays * TicksPerDay

====
